---------------------------- MODULE Spec2Model ----------------------------
(***************************************************************************)
(* Alias resolution and policy materialization of the WatchGuard network   *)
(* mapper: parse_watchguard.ts (toDomain, makeAliasUniverse) and           *)
(* xml_to_upolicy.ts (xmlPoliciesToUnified) and merge_policies.ts          *)
(* (mergePolicies), with the overlap tests of App.tsx and policy_match.ts. *)
(* The local database of db.ts, the snapshot handlers of the XML+XLS App   *)
(* (App.tsx) and loadMapById / onSaveAsMap of the map App follow.          *)
(*                                                                         *)
(* Representation.                                                         *)
(*  - An IPv4 text "a.b.c.d" is the tuple <<a, b, c, d>>; a CIDR text      *)
(*    "a.b.c.d/n" is the record [ip |-> <<a, b, c, d>>, pfx |-> n].  Two   *)
(*    texts are equal exactly when their records are.                      *)
(*  - A JavaScript Set (and a Map's key order) keeps insertion order and   *)
(*    holds no duplicate: it is a sequence without repetition.  The        *)
(*    visited set `seen` is only tested and added to, so it is a set.      *)
(*  - A note text is a tuple of strings: the fixed words, then the name.   *)
(***************************************************************************)
EXTENDS Integers, Sequences, FiniteSets, TLC

VARIABLES
    aliasesByName,    \* raw.aliasesByName: alias name -> member list
    addrGroupsByName, \* raw.addrGroupsByName: group name -> member list
    interfacesByName, \* raw.interfacesByName, in insertion order
    domain,           \* toDomain(raw)
    concrete,         \* parseConcretePolicies(doc): the base PolicyNodes
    abs,              \* parseAbsPolicies(doc): the overlays
    call,             \* the last completed top-level call and what it returned
    pc,               \* position of the stepwise resolveAlias call
    stack,            \* its frames of resolveAliasInternal, innermost last
    seen,             \* its visited set
    expanded,         \* how often each name passed seen.add in the call
    first,            \* the first result returned in this behaviour
    merge,            \* the policy lists handed to mergePolicies and its result
    other,            \* a second resolveAlias call, run in steps beside the first
    ov,               \* the CIDRs handed to the overlap tests and their answers
    db,               \* the tables of the local database (db.ts)
    snap,             \* the Snapshot state of the XML+XLS App (App.tsx)
    inflight,         \* its onPickXml / onPickXls handlers awaiting their parse
    session,          \* the state of the map App (maps, firewalls, annotations)
    loads             \* its loadMapById calls, each at one of its awaits

vars == <<aliasesByName, addrGroupsByName, interfacesByName, domain,
          concrete, abs, call, pc, stack, seen, expanded, first, merge,
          other, ov, db, snap, inflight, session, loads>>

appState == <<db, snap, inflight, session, loads>>

config == <<aliasesByName, addrGroupsByName, interfacesByName, domain,
            concrete, abs>>

-----------------------------------------------------------------------------
(* Sequences as arrays and as insertion-ordered sets *)

Range(s) == {s[i] : i \in DOMAIN s}

SetAdd(s, x) == IF x \in Range(s) THEN s ELSE Append(s, x)

RECURSIVE SetAddAll(_, _)
SetAddAll(s, xs) ==
    IF xs = <<>> THEN s ELSE SetAddAll(SetAdd(s, Head(xs)), Tail(xs))

NewSet(xs) == SetAddAll(<<>>, xs)

RECURSIVE FlatMapCidrs(_)
FlatMapCidrs(infos) ==
    IF infos = <<>> THEN <<>>
    ELSE Head(infos).cidrs \o FlatMapCidrs(Tail(infos))

-----------------------------------------------------------------------------
(* helpers *)

RECURSIVE BitCount(_)
BitCount(n) == IF n = 0 THEN 0 ELSE (n % 2) + BitCount(n \div 2)

maskToPrefix(mask) ==
    BitCount(mask[1]) + BitCount(mask[2]) + BitCount(mask[3]) + BitCount(mask[4])

toCidr(ip, mask) == [ip |-> ip, pfx |-> maskToPrefix(mask)]

HostCidr(ip) == [ip |-> ip, pfx |-> 32]

BUILTINS == {"Any-Trusted", "Any-Optional", "Any-External", "Firebox", "Any"}

(* BUILTIN_TO_ZONE is an object literal: a lookup of a key it does not    *)
(* hold falls through to Object.prototype, so the names of                *)
(* Object.prototype's members ("constructor", "toString", ...) look up a  *)
(* value that is neither undefined nor a zone.                            *)
ObjectPrototypeNames == {"constructor"}

Undefined == "undefined"

BUILTIN_TO_ZONE(name) ==
    CASE name = "Any-Trusted" -> "Trusted"
      [] name = "Any-Optional" -> "Optional"
      [] name = "Any-External" -> "External"
      [] name \in ObjectPrototypeNames -> "[native code]"
      [] OTHER -> Undefined

-----------------------------------------------------------------------------
(* Domain *)

MapGet(m, k, default) == IF k \in DOMAIN m THEN m[k] ELSE default

MapSet(m, k, v) == [x \in DOMAIN m \cup {k} |-> IF x = k THEN v ELSE m[x]]

EmptyMap == [x \in {} |-> <<>>]

(* Mutant: an interface's CIDRs replace the bucket of its zone. *)
RECURSIVE toDomainLoop_replacesBucket(_, _)
toDomainLoop_replacesBucket(entries, d) ==
    IF entries = <<>> THEN d
    ELSE LET info == Head(entries)
         IN  toDomainLoop_replacesBucket(Tail(entries),
                 [d EXCEPT
                    !.cidrsByInterface = MapSet(@, info.name, info.cidrs),
                    !.zoneByInterface = MapSet(@, info.name, info.zone),
                    !.zoneCidrs = IF info.zone # ""
                                  THEN MapSet(@, info.zone, info.cidrs)
                                  ELSE @])

RECURSIVE toDomainLoop(_, _)
toDomainLoop(entries, d) ==
    IF entries = <<>> THEN d
    ELSE LET info == Head(entries)
             arr == MapGet(d.zoneCidrs, info.zone, <<>>)
         IN  toDomainLoop(Tail(entries),
                 [d EXCEPT
                    !.cidrsByInterface = MapSet(@, info.name, info.cidrs),
                    !.zoneByInterface = MapSet(@, info.name, info.zone),
                    !.zoneCidrs = IF info.zone # ""
                                  THEN MapSet(@, info.zone, arr \o info.cidrs)
                                  ELSE @])

toDomain(ifaces) ==
    toDomainLoop(ifaces,
        [interfaces |-> ifaces,
         cidrsByInterface |-> EmptyMap,
         zoneByInterface |-> EmptyMap,
         zoneCidrs |-> EmptyMap])

-----------------------------------------------------------------------------
(* Alias resolution *)

CycleNote(name) == <<"Cycle detected at", name>>
FireboxNote == <<"Firebox (device) has no address space">>
AliasNotFoundNote(name) == <<"Alias not found:", name>>
GroupNotFoundNote(name) == <<"Address-group not found:", name>>

isBuiltin(name) ==
    name \in BUILTINS \/ BUILTIN_TO_ZONE(name) # Undefined \/ name = "Firebox"

(* Mutant: "Any" answered from the Trusted zone bucket. *)
builtinToCidrs_anyIsTrusted(name) ==
    IF name = "Firebox" THEN <<>>
    ELSE LET zone == IF name = "Any" THEN "Trusted" ELSE BUILTIN_TO_ZONE(name)
         IN  IF zone = Undefined THEN <<>>
             ELSE MapGet(domain.zoneCidrs, zone, <<>>)

builtinToCidrs(name) ==
    IF name = "Any" THEN FlatMapCidrs(domain.interfaces)
    ELSE IF name = "Firebox" THEN <<>>
    ELSE LET zone == BUILTIN_TO_ZONE(name)
         IN  IF zone = Undefined THEN <<>>
             ELSE MapGet(domain.zoneCidrs, zone, <<>>)

(* Mutant: the zone is looked at before the interface. *)
interfaceAnyToCidrs_zoneFirst(iface, zone) ==
    IF zone # "" THEN MapGet(domain.zoneCidrs, zone, <<>>)
    ELSE IF iface # "" /\ iface \in DOMAIN domain.cidrsByInterface
    THEN domain.cidrsByInterface[iface]
    ELSE FlatMapCidrs(domain.interfaces)

interfaceAnyToCidrs(iface, zone) ==
    IF iface # "" /\ iface \in DOMAIN domain.cidrsByInterface
    THEN domain.cidrsByInterface[iface]
    ELSE IF zone # "" THEN MapGet(domain.zoneCidrs, zone, <<>>)
    ELSE FlatMapCidrs(domain.interfaces)

Empty == [cidrs |-> <<>>, hosts |-> <<>>, notes |-> <<>>]

(* Mutant: a host member is added to the hosts only. *)
RECURSIVE expandMembers_hostOnly(_, _)
expandMembers_hostOnly(members, acc) ==
    IF members = <<>> THEN acc
    ELSE LET mem == Head(members)
         IN  expandMembers_hostOnly(Tail(members),
                 IF mem.kind = "host"
                 THEN [acc EXCEPT !.hosts = SetAdd(@, mem.ip)]
                 ELSE IF mem.kind = "network"
                 THEN [acc EXCEPT !.cidrs = SetAdd(@, toCidr(mem.ip, mem.mask))]
                 ELSE acc)

RECURSIVE expandMembers(_, _)
expandMembers(members, acc) ==
    IF members = <<>> THEN acc
    ELSE LET mem == Head(members)
         IN  expandMembers(Tail(members),
                 IF mem.kind = "host"
                 THEN [acc EXCEPT !.hosts = SetAdd(@, mem.ip),
                                  !.cidrs = SetAdd(@, HostCidr(mem.ip))]
                 ELSE IF mem.kind = "network"
                 THEN [acc EXCEPT !.cidrs = SetAdd(@, toCidr(mem.ip, mem.mask))]
                 ELSE acc)

expandAddressGroup(name) ==
    IF name \notin DOMAIN addrGroupsByName
    THEN [Empty EXCEPT !.notes = <<GroupNotFoundNote(name)>>]
    ELSE expandMembers(addrGroupsByName[name], Empty)

(* Mutant: the notes of a nested result are not passed on. *)
unionInto_dropsNotes(acc, r) ==
    [cidrs |-> SetAddAll(acc.cidrs, r.cidrs),
     hosts |-> SetAddAll(acc.hosts, r.hosts),
     notes |-> acc.notes]

(* Mutant: the hosts of a nested result are not passed on. *)
unionInto_dropsHosts(acc, r) ==
    [cidrs |-> SetAddAll(acc.cidrs, r.cidrs),
     hosts |-> acc.hosts,
     notes |-> acc.notes \o r.notes]

(* r.cidrs.forEach(c => cidrs.add(c)); r.hosts.forEach(h => hosts.add(h)); *)
(* notes.push(...r.notes)                                                  *)
unionInto(acc, r) ==
    [cidrs |-> SetAddAll(acc.cidrs, r.cidrs),
     hosts |-> SetAddAll(acc.hosts, r.hosts),
     notes |-> acc.notes \o r.notes]

(* Mutant: a revisited name is answered with the empty result and no note. *)
cycleResult_silent(name) == [cidrs |-> <<>>, hosts |-> <<>>, notes |-> <<>>]

(* The result of resolveAliasInternal for a name already in `seen`. *)
cycleResult(name) == [Empty EXCEPT !.notes = <<CycleNote(name)>>]

(* The result for a builtin name. *)
builtinResult(name) ==
    [cidrs |-> NewSet(builtinToCidrs(name)),
     hosts |-> <<>>,
     notes |-> IF name = "Firebox" THEN <<FireboxNote>> ELSE <<>>]

(* The result for a name that is no builtin and no alias. *)
fallbackResult(name) ==
    LET agResolved == expandAddressGroup(name)
    IN  IF Len(agResolved.cidrs) # 0 \/ Len(agResolved.hosts) # 0
        THEN agResolved
        ELSE [Empty EXCEPT !.notes = <<AliasNotFoundNote(name)>>]

(* Mutant: a builtin member adds its CIDRs and never a note. *)
leafMember_noFireboxNote(acc, m) ==
    IF m.kind = "address-ref"
    THEN unionInto(acc, expandAddressGroup(m.addressName))
    ELSE IF m.kind = "interface-any"
    THEN [acc EXCEPT !.cidrs =
              SetAddAll(@, interfaceAnyToCidrs(m.interface, m.zone))]
    ELSE IF m.kind = "builtin"
    THEN [acc EXCEPT !.cidrs = SetAddAll(@, builtinToCidrs(m.name))]
    ELSE acc

(* One member that is no alias-ref, added to the accumulated result. *)
leafMember(acc, m) ==
    IF m.kind = "address-ref"
    THEN unionInto(acc, expandAddressGroup(m.addressName))
    ELSE IF m.kind = "interface-any"
    THEN [acc EXCEPT !.cidrs =
              SetAddAll(@, interfaceAnyToCidrs(m.interface, m.zone))]
    ELSE IF m.kind = "builtin"
    THEN [acc EXCEPT
            !.cidrs = SetAddAll(@, builtinToCidrs(m.name)),
            !.notes = IF m.name = "Firebox" THEN Append(@, FireboxNote) ELSE @]
    ELSE acc

(* The visited set the recursive call for an alias-ref member receives. *)
seenForCallee(s) == s

(* resolveAliasInternal returns [r |-> ResolvedAlias, seen |-> the visited *)
(* set as the call leaves it]: the set is one object shared by the whole   *)
(* top-level call.                                                         *)
RECURSIVE resolveAliasInternal(_, _)
RECURSIVE resolveMembers(_, _, _)

resolveAliasInternal(name, s) ==
    IF name \in s THEN [r |-> cycleResult(name), seen |-> s]
    ELSE LET s1 == s \cup {name}
         IN  IF isBuiltin(name) THEN [r |-> builtinResult(name), seen |-> s1]
             ELSE IF name \notin DOMAIN aliasesByName
             THEN [r |-> fallbackResult(name), seen |-> s1]
             ELSE resolveMembers(aliasesByName[name], Empty, s1)

resolveMembers(members, acc, s) ==
    IF members = <<>> THEN [r |-> acc, seen |-> s]
    ELSE LET m == Head(members)
         IN  IF m.kind = "alias-ref"
             THEN LET sub == resolveAliasInternal(m.aliasName, seenForCallee(s))
                  IN  resolveMembers(Tail(members), unionInto(acc, sub.r),
                                     s \cup sub.seen)
             ELSE resolveMembers(Tail(members), leafMember(acc, m), s)

resolveAlias(name) == resolveAliasInternal(name, {}).r

-----------------------------------------------------------------------------
(* Text order: Array.prototype.sort() without a comparator orders strings  *)
(* by their UTF-16 code units.                                             *)

RECURSIVE Digits(_)
Digits(n) == IF n < 10 THEN <<48 + n>> ELSE Append(Digits(n \div 10), 48 + (n % 10))

IpText(ip) ==
    Digits(ip[1]) \o <<46>> \o Digits(ip[2]) \o <<46>> \o Digits(ip[3])
        \o <<46>> \o Digits(ip[4])

CidrText(c) == IpText(c.ip) \o <<47>> \o Digits(c.pfx)

RECURSIVE TextLess(_, _)
TextLess(a, b) ==
    IF b = <<>> THEN FALSE
    ELSE IF a = <<>> THEN TRUE
    ELSE IF Head(a) # Head(b) THEN Head(a) < Head(b)
    ELSE TextLess(Tail(a), Tail(b))

RECURSIVE SortInsert(_, _)
SortInsert(sorted, x) ==
    IF sorted = <<>> THEN <<x>>
    ELSE IF TextLess(x, Head(sorted)) THEN <<x>> \o sorted
    ELSE <<Head(sorted)>> \o SortInsert(Tail(sorted), x)

(* texts.sort() *)
RECURSIVE Sort(_)
Sort(texts) ==
    IF texts = <<>> THEN <<>> ELSE SortInsert(Sort(Tail(texts)), Head(texts))

RECURSIVE CidrTexts(_)
CidrTexts(cs) ==
    IF cs = <<>> THEN <<>> ELSE <<CidrText(Head(cs))>> \o CidrTexts(Tail(cs))

RECURSIVE IpTexts(_)
IpTexts(hs) ==
    IF hs = <<>> THEN <<>> ELSE <<IpText(Head(hs))>> \o IpTexts(Tail(hs))

-----------------------------------------------------------------------------
(* Policy materialization *)

(* Mutant: the note is passed on without the endpoint name. *)
PrefixNote_bare(n, x) == x

PrefixNote(n, x) == <<"[", n, "]">> \o x

RECURSIVE PrefixNotes(_, _)
PrefixNotes(n, notes) ==
    IF notes = <<>> THEN <<>>
    ELSE <<PrefixNote(n, Head(notes))>> \o PrefixNotes(n, Tail(notes))

RECURSIVE resolveAliasListLoop(_, _)
resolveAliasListLoop(names, acc) ==
    IF names = <<>> THEN acc
    ELSE LET n == Head(names)
         IN  IF n = "" THEN resolveAliasListLoop(Tail(names), acc)
             ELSE LET r == resolveAlias(n)
                  IN  resolveAliasListLoop(Tail(names),
                          [cidrs |-> SetAddAll(acc.cidrs, r.cidrs),
                           hosts |-> SetAddAll(acc.hosts, r.hosts),
                           notes |-> acc.notes \o PrefixNotes(n, r.notes)])

(* Mutant: the loop ends at the first name that resolves with a note. *)
RECURSIVE resolveAliasList_stopLoop(_, _)
resolveAliasList_stopLoop(names, acc) ==
    IF names = <<>> THEN acc
    ELSE LET n == Head(names)
         IN  IF n = "" THEN resolveAliasList_stopLoop(Tail(names), acc)
             ELSE LET r == resolveAlias(n)
                      sum == [cidrs |-> SetAddAll(acc.cidrs, r.cidrs),
                              hosts |-> SetAddAll(acc.hosts, r.hosts),
                              notes |-> acc.notes \o PrefixNotes(n, r.notes)]
                  IN  IF r.notes # <<>> THEN sum
                      ELSE resolveAliasList_stopLoop(Tail(names), sum)

resolveAliasList_stopsAtNote(names) == resolveAliasList_stopLoop(names, Empty)

resolveAliasList(names) == resolveAliasListLoop(names, Empty)

(* Mutant: the NAT flags of the node are not carried over. *)
materializeUnified_withoutNat(node, source) ==
    LET from == resolveAliasList(node.fromNames)
        to == resolveAliasList(node.toNames)
    IN  [id |-> node.id,
         name |-> node.name,
         service |-> node.service,
         fromAliases |-> node.fromNames,
         toAliases |-> node.toNames,
         srcCidrs |-> from.cidrs,
         dstCidrs |-> to.cidrs,
         srcHosts |-> from.hosts,
         dstHosts |-> to.hosts,
         source |-> source,
         nat |-> {},
         tags |-> <<>>,
         debug |-> from.notes \o to.notes]

materializeUnified(node, source) ==
    LET from == resolveAliasList(node.fromNames)
        to == resolveAliasList(node.toNames)
    IN  [id |-> node.id,
         name |-> node.name,
         service |-> node.service,
         fromAliases |-> node.fromNames,
         toAliases |-> node.toNames,
         srcCidrs |-> from.cidrs,
         dstCidrs |-> to.cidrs,
         srcHosts |-> from.hosts,
         dstHosts |-> to.hosts,
         source |-> source,
         nat |-> node.nat,
         tags |-> <<>>,
         debug |-> from.notes \o to.notes]

RECURSIVE materializeAll(_)
materializeAll(nodes) ==
    IF nodes = <<>> THEN <<>>
    ELSE <<materializeUnified(Head(nodes), "XML")>> \o materializeAll(Tail(nodes))

(* new Map(concrete.map(p => [p.name, p])): a later policy of the same    *)
(* name replaces an earlier one.                                           *)
RECURSIVE byNameOf(_, _)
byNameOf(nodes, m) ==
    IF nodes = <<>> THEN m
    ELSE byNameOf(Tail(nodes), MapSet(m, Head(nodes).name, Head(nodes)))

(* Mutant: the overlay's lists replace the base's even when empty. *)
overlayMerged_alwaysOverlay(base, a) ==
    [base EXCEPT !.fromNames = a.fromNames, !.toNames = a.toNames]

overlayMerged(base, a) ==
    [base EXCEPT
       !.fromNames = IF Len(a.fromNames) # 0 THEN a.fromNames ELSE @,
       !.toNames = IF Len(a.toNames) # 0 THEN a.toNames ELSE @]

(* Mutant: the target loop ends at the first target that names no base    *)
(* policy.                                                                 *)
RECURSIVE overlayTargets_stopsAtMissing(_, _, _)
overlayTargets_stopsAtMissing(a, targets, byName) ==
    IF targets = <<>> THEN <<>>
    ELSE LET target == Head(targets)
         IN  IF target \notin DOMAIN byName THEN <<>>
             ELSE <<materializeUnified(overlayMerged(byName[target], a), "XML")>>
                      \o overlayTargets_stopsAtMissing(a, Tail(targets), byName)

RECURSIVE overlayTargets(_, _, _)
overlayTargets(a, targets, byName) ==
    IF targets = <<>> THEN <<>>
    ELSE LET target == Head(targets)
             rest == overlayTargets(a, Tail(targets), byName)
         IN  IF target \notin DOMAIN byName THEN rest
             ELSE <<materializeUnified(overlayMerged(byName[target], a), "XML")>>
                      \o rest

RECURSIVE applyOverlays(_, _)
applyOverlays(overlays, byName) ==
    IF overlays = <<>> THEN <<>>
    ELSE overlayTargets(Head(overlays), Head(overlays).policyNames, byName)
             \o applyOverlays(Tail(overlays), byName)

(* The array `unified` before "Deduplicate by content". *)
unifiedBeforeDedup(policies, overlays) ==
    materializeAll(policies) \o applyOverlays(overlays, byNameOf(policies, EmptyMap))

dedupKey(u) ==
    [n |-> u.name,
     s |-> IF u.service = Undefined THEN "" ELSE u.service,
     f |-> Sort(CidrTexts(u.srcCidrs)),
     t |-> Sort(CidrTexts(u.dstCidrs)),
     fh |-> Sort(IpTexts(u.srcHosts)),
     th |-> Sort(IpTexts(u.dstHosts))]

RECURSIVE dedup(_, _, _)
dedup(unified, seenKeys, out) ==
    IF unified = <<>> THEN out
    ELSE LET u == Head(unified)
             key == dedupKey(u)
         IN  IF key \notin seenKeys
             THEN dedup(Tail(unified), seenKeys \cup {key}, Append(out, u))
             ELSE dedup(Tail(unified), seenKeys, out)

xmlPoliciesToUnified(policies, overlays) ==
    dedup(unifiedBeforeDedup(policies, overlays), {}, <<>>)

-----------------------------------------------------------------------------
(* Merging policy lists (merge_policies.ts) *)

(* A policy-like object (AnyPolicy) is a record that has some of the      *)
(* fields of a UnifiedPolicy and of the legacy shape (from, to); p.f of a  *)
(* field it lacks is undefined.                                            *)
Has(p, f) == f \in DOMAIN p

RECURSIVE FilterBoolean(_)
FilterBoolean(xs) ==
    IF xs = <<>> THEN <<>>
    ELSE (IF Head(xs) = "" THEN <<>> ELSE <<Head(xs)>>) \o FilterBoolean(Tail(xs))

(* arr(x) for an array of strings. *)
arr(x) == FilterBoolean(x)

(* cryptoRandomId(): only reached for a policy with neither id nor name.  *)
cryptoRandomId == "p_random"

normalize(p) ==
    LET fromAliases == IF Has(p, "fromAliases") THEN p.fromAliases
                       ELSE IF Has(p, "from") THEN p.from ELSE <<>>
        toAliases == IF Has(p, "toAliases") THEN p.toAliases
                     ELSE IF Has(p, "to") THEN p.to ELSE <<>>
    IN  [id |-> IF Has(p, "id") THEN p.id
                ELSE IF Has(p, "name") THEN p.name ELSE cryptoRandomId,
         name |-> IF Has(p, "name") THEN p.name ELSE "Unnamed",
         service |-> IF Has(p, "service") THEN p.service ELSE Undefined,
         fromAliases |-> arr(fromAliases),
         toAliases |-> arr(toAliases),
         srcCidrs |-> IF Has(p, "srcCidrs") THEN p.srcCidrs ELSE <<>>,
         dstCidrs |-> IF Has(p, "dstCidrs") THEN p.dstCidrs ELSE <<>>,
         srcHosts |-> IF Has(p, "srcHosts") THEN p.srcHosts ELSE <<>>,
         dstHosts |-> IF Has(p, "dstHosts") THEN p.dstHosts ELSE <<>>,
         source |-> IF Has(p, "source") THEN p.source ELSE "XML",
         tags |-> IF Has(p, "tags") THEN p.tags ELSE <<>>,
         nat |-> IF Has(p, "nat") THEN p.nat ELSE {},
         debug |-> IF Has(p, "debug") THEN p.debug ELSE <<>>]

(* Mutant: { source, ...raw }: the policy's own source wins. *)
WithSource_ownWins(raw, source) ==
    [f \in DOMAIN raw \cup {"source"} |->
        IF f \in DOMAIN raw THEN raw[f] ELSE source]

(* { ...raw, source } *)
WithSource(raw, source) ==
    [f \in DOMAIN raw \cup {"source"} |-> IF f = "source" THEN source ELSE raw[f]]

(* texts.join(','): the texts with a comma (char code 44) between them. *)
RECURSIVE Join(_)
Join(texts) ==
    IF texts = <<>> THEN <<>>
    ELSE IF Len(texts) = 1 THEN Head(texts)
    ELSE Head(texts) \o <<44>> \o Join(Tail(texts))

(* Mutant: the key leaves out the destination CIDRs. *)
keyOf_withoutDestination(p) ==
    [n |-> p.name,
     s |-> IF p.service = Undefined THEN "" ELSE p.service,
     f |-> Join(Sort(CidrTexts(p.srcCidrs))),
     t |-> <<>>,
     fh |-> Join(Sort(IpTexts(p.srcHosts))),
     th |-> Join(Sort(IpTexts(p.dstHosts)))]

keyOf(p) ==
    [n |-> p.name,
     s |-> IF p.service = Undefined THEN "" ELSE p.service,
     f |-> Join(Sort(CidrTexts(p.srcCidrs))),
     t |-> Join(Sort(CidrTexts(p.dstCidrs))),
     fh |-> Join(Sort(IpTexts(p.srcHosts))),
     th |-> Join(Sort(IpTexts(p.dstHosts)))]

(* push(raw, source) of every policy of a list, on the state [out, seen]. *)
(* Mutant: push never records the key it has seen. *)
RECURSIVE pushAll_forgetsKeys(_, _, _)
pushAll_forgetsKeys(raws, source, st) ==
    IF raws = <<>> THEN st
    ELSE LET norm == normalize(WithSource(Head(raws), source))
             k == keyOf(norm)
         IN  pushAll_forgetsKeys(Tail(raws), source,
                     IF k \notin st.seen
                     THEN [out |-> Append(st.out, norm), seen |-> st.seen]
                     ELSE st)

RECURSIVE pushAll(_, _, _)
pushAll(raws, source, st) ==
    IF raws = <<>> THEN st
    ELSE LET norm == normalize(WithSource(Head(raws), source))
             k == keyOf(norm)
         IN  pushAll(Tail(raws), source,
                     IF k \notin st.seen
                     THEN [out |-> Append(st.out, norm), seen |-> st.seen \cup {k}]
                     ELSE st)

(* Mutant: the policies of the second list are pushed without the key     *)
(* test.                                                                   *)
mergePolicies_secondUnchecked(xmlPolicies, xlsPolicies) ==
    pushAll_forgetsKeys(xlsPolicies, "XLS",
        [out |-> pushAll(xmlPolicies, "XML", [out |-> <<>>, seen |-> {}]).out,
         seen |-> {}]).out

(* Mutant: the second list is deduplicated on its own, with a new `seen`. *)
mergePolicies_separateSeen(xmlPolicies, xlsPolicies) ==
    pushAll(xmlPolicies, "XML", [out |-> <<>>, seen |-> {}]).out
        \o pushAll(xlsPolicies, "XLS", [out |-> <<>>, seen |-> {}]).out

mergePolicies(xmlPolicies, xlsPolicies) ==
    pushAll(xlsPolicies, "XLS",
            pushAll(xmlPolicies, "XML", [out |-> <<>>, seen |-> {}])).out

-----------------------------------------------------------------------------
(* 32-bit words and the overlap tests (App.tsx, policy_match.ts) *)

(* A JavaScript number n that is an integer is the record                 *)
(* [hi |-> n \div 65536, lo |-> n % 65536]: an unsigned 32-bit value has  *)
(* hi in 0 .. 65535, a signed one (the result of &, |, ~, <<) has hi in   *)
(* -32768 .. 32767.                                                        *)
Word(hi, lo) == [hi |-> hi, lo |-> lo]

(* ToInt32 and ToUint32 (x >>> 0) *)
ToUint32(x) == Word(x.hi % 65536, x.lo)
ToInt32(x) ==
    LET u == ToUint32(x) IN Word(IF u.hi >= 32768 THEN u.hi - 65536 ELSE u.hi, u.lo)

RECURSIVE BitAnd(_, _)
BitAnd(x, y) ==
    IF x = 0 \/ y = 0 THEN 0
    ELSE (x % 2) * (y % 2) + 2 * BitAnd(x \div 2, y \div 2)

(* x & y, x | y, ~x: on the 32 bits of the operands, with a signed result *)
And32(x, y) ==
    ToInt32(Word(BitAnd(ToUint32(x).hi, ToUint32(y).hi), BitAnd(x.lo, y.lo)))

Not32(x) == ToInt32(Word(65535 - ToUint32(x).hi, 65535 - x.lo))

Or32(x, y) == Not32(And32(Not32(x), Not32(y)))

(* x + y, x <= y, Math.max, Math.min on numbers *)
Plus(x, y) == Word(x.hi + y.hi + (x.lo + y.lo) \div 65536, (x.lo + y.lo) % 65536)
Leq(x, y) == x.hi < y.hi \/ (x.hi = y.hi /\ x.lo <= y.lo)
MathMax(x, y) == IF Leq(x, y) THEN y ELSE x
MathMin(x, y) == IF Leq(x, y) THEN x ELSE y

(* ~0 << n for n in 0 .. 31 *)
OnesShiftedLeft(n) ==
    ToInt32(Word(IF n >= 16 THEN 65536 - 2 ^ (n - 16) ELSE 65535,
                 IF n >= 16 THEN 0 ELSE 65536 - 2 ^ n))

(* App.tsx: (((a<<24)>>>0) + (b<<16) + (c<<8) + d) >>> 0 *)
ipToIntApp(ip) == ToUint32(Word(ip[1] * 256 + ip[2], ip[3] * 256 + ip[4]))

(* policy_match.ts: reduce((a, o) => (a << 8) + (o & 0xff), 0) >>> 0 *)
ShiftLeft8(x) ==
    ToInt32(Word((ToUint32(x).hi % 256) * 256 + x.lo \div 256, (x.lo % 256) * 256))

RECURSIVE ipToIntLoop(_, _)
ipToIntLoop(octets, acc) ==
    IF octets = <<>> THEN acc
    ELSE ipToIntLoop(Tail(octets), Plus(ShiftLeft8(acc), Word(0, BitAnd(Head(octets), 255))))

ipToInt(ip) == ToUint32(ipToIntLoop(ip, Word(0, 0)))

(* maskBits(bits); policy_match.ts writes the same expression inline. *)
maskBits(bits) == IF bits = 0 THEN Word(0, 0) ELSE ToUint32(OnesShiftedLeft(32 - bits))

(* Mutant: only the first test, b's address under a's mask. *)
overlapsApp_firstTestOnly(a, b) ==
    And32(ipToIntApp(a.ip), maskBits(a.pfx)) = And32(ipToIntApp(b.ip), maskBits(a.pfx))

(* App.tsx overlaps(a, b) *)
overlapsApp(a, b) ==
    LET ma == maskBits(a.pfx)
        mb == maskBits(b.pfx)
        ia == ipToIntApp(a.ip)
        ib == ipToIntApp(b.ip)
    IN  \/ And32(ia, ma) = And32(ib, ma)
        \/ And32(ia, mb) = And32(ib, mb)
        \/ /\ Leq(And32(ia, ma), And32(ib, mb))
           /\ Leq(And32(ib, mb), Plus(And32(ia, ma), ToUint32(Not32(ma))))

(* policy_match.ts overlaps(cidrA, cidrB) *)
overlaps(cidrA, cidrB) ==
    LET aMask == maskBits(cidrA.pfx)
        bMask == maskBits(cidrB.pfx)
        aBase == And32(ipToInt(cidrA.ip), aMask)
        bBase == And32(ipToInt(cidrB.ip), bMask)
        maxStart == ToUint32(MathMax(aBase, bBase))
        minEnd == ToUint32(MathMin(Or32(aBase, ToUint32(Not32(aMask))),
                                   Or32(bBase, ToUint32(Not32(bMask)))))
    IN  Leq(maxStart, minEnd)

RECURSIVE SomeOverlaps(_, _)
SomeOverlaps(cidrs, subnetCidr) ==
    IF cidrs = <<>> THEN FALSE
    ELSE overlaps(Head(cidrs), subnetCidr) \/ SomeOverlaps(Tail(cidrs), subnetCidr)

(* policy_match.ts policiesForSubnet(policies, subnetCidr) *)
RECURSIVE policiesForSubnet(_, _)
policiesForSubnet(policies, subnetCidr) ==
    IF policies = <<>> THEN <<>>
    ELSE (IF SomeOverlaps(Head(policies).srcCidrs, subnetCidr)
             \/ SomeOverlaps(Head(policies).dstCidrs, subnetCidr)
          THEN <<Head(policies)>> ELSE <<>>)
         \o policiesForSubnet(Tail(policies), subnetCidr)

-----------------------------------------------------------------------------
(* Inputs: the configurations the parsers can hand to the engine *)

MaxMembers == 3       \* members in an alias table of the reference-graph inputs
MaxLeafMembers == 2   \* members of the alias of the member-kind inputs
MaxGroupMembers == 2  \* members of an address-group
MaxIfAddrs == 2       \* addresses (primary and secondary) of an interface

Ip1 == <<10, 0, 0, 5>>
Ip2 == <<10, 1, 0, 0>>
Ip3 == <<10, 1, 0, 77>>
Ip4 == <<192, 168, 1, 1>>
Mask24 == <<255, 255, 255, 0>>
Mask16 == <<255, 255, 0, 0>>

Ref(n) == [kind |-> "alias-ref", aliasName |-> n]
Addr(g) == [kind |-> "address-ref", addressName |-> g]
IfAny(i, z) == [kind |-> "interface-any", interface |-> i, zone |-> z]
Builtin(n) == [kind |-> "builtin", name |-> n]
Host(ip) == [kind |-> "host", ip |-> ip]
Network(ip, mask) == [kind |-> "network", ip |-> ip, mask |-> mask]

(* Every table over `keys` whose lists hold at most k entries of `pool`    *)
(* in all.                                                                 *)
RECURSIVE TablesUpTo(_, _, _)
TablesUpTo(keys, pool, k) ==
    IF k = 0 THEN {[a \in keys |-> <<>>]}
    ELSE LET prev == TablesUpTo(keys, pool, k - 1)
         IN  prev \cup {[t EXCEPT ![a] = Append(@, m)] :
                            t \in prev, a \in keys, m \in pool}

(* Every list of at most k entries of `pool`. *)
RECURSIVE ListsUpTo(_, _)
ListsUpTo(pool, k) ==
    IF k = 0 THEN {<<>>}
    ELSE LET prev == ListsUpTo(pool, k - 1)
         IN  prev \cup {Append(l, m) : l \in prev, m \in pool}

(* parseAliases: an alias named like a builtin gets that builtin as its   *)
(* last member.                                                            *)
parseAliasesTail(t) ==
    [a \in DOMAIN t |-> IF a \in BUILTINS THEN Append(t[a], Builtin(a)) ELSE t[a]]

(* parseInterfaces: name, zone (absent: Custom) and one CIDR per address. *)
RECURSIVE AddrCidrs(_)
AddrCidrs(addrs) ==
    IF addrs = <<>> THEN <<>>
    ELSE <<toCidr(Head(addrs)[1], Head(addrs)[2])>> \o AddrCidrs(Tail(addrs))

parseInterface(name, zone, addrs) ==
    [name |-> name, zone |-> zone, cidrs |-> AddrCidrs(addrs)]

DefaultGroups ==
    [g \in {"G", "H"} |->
        IF g = "G" THEN <<Host(Ip1), Network(Ip2, Mask24)>> ELSE <<Host(Ip4)>>]

DefaultInterfaces ==
    <<parseInterface("eth0", "Trusted", <<<<Ip1, Mask24>>>>),
      parseInterface("eth1", "External", <<<<Ip4, Mask24>>>>)>>

Policy(id, name, service, fromNames, toNames, nat) ==
    [name |-> name, id |-> id, service |-> service,
     fromNames |-> fromNames, toNames |-> toNames, nat |-> nat]

Overlay(name, fromNames, toNames, policyNames) ==
    [name |-> name, fromNames |-> fromNames, toNames |-> toNames,
     policyNames |-> policyNames]

NoPolicies == <<>>

DefaultPolicies ==
    <<Policy("P1", "P1", "HTTP", <<"A">>, <<"Firebox">>, {}),
      Policy("P2", "P2", Undefined, <<"B", "C">>, <<"G", "H">>, {"dnat"})>>

Universe(aliases, groups, ifaces, policies, overlays) ==
    [aliases |-> aliases, groups |-> groups, ifaces |-> ifaces,
     policies |-> policies, overlays |-> overlays]

(* Reference graphs over three aliases: cycles, diamonds, repeated refs. *)
GraphPool ==
    {Ref("A"), Ref("B"), Ref("C"), Addr("G"), Addr("H"), Builtin("Firebox")}

GraphUniverses ==
    {Universe(t, DefaultGroups, DefaultInterfaces, DefaultPolicies, NoPolicies) :
        t \in TablesUpTo({"A", "B", "C"}, GraphPool, MaxMembers)}

(* Aliases whose name the resolver takes for a builtin. *)
ShadowPool == {Ref("A"), Ref("Any-Trusted"), Addr("G"), Builtin("Firebox")}

ShadowUniverses ==
    {Universe(parseAliasesTail(t), DefaultGroups, DefaultInterfaces,
              DefaultPolicies, NoPolicies) :
        t \in TablesUpTo({"A", "Any-Trusted"}, ShadowPool, MaxLeafMembers)}

(* One alias with members of every kind, resolvable or not. *)
LeafPool ==
    {Ref("B"), Ref("G"), Ref("Firebox"), Ref("Any"), Ref("constructor"),
     Addr("G"), Addr("Missing"),
     IfAny("eth0", ""), IfAny("eth9", "External"), IfAny("", ""),
     Builtin("Any"), Builtin("Any-Trusted"), Builtin("Firebox")}

LeafUniverses ==
    {Universe(t, DefaultGroups, DefaultInterfaces, DefaultPolicies, NoPolicies) :
        t \in TablesUpTo({"A"}, LeafPool, MaxLeafMembers)}

(* Address-groups: present or not, with hosts, networks and other members. *)
GroupPool ==
    {Host(Ip1), Host(Ip2), Network(Ip2, Mask24), Network(Ip3, Mask16)}

GroupTables ==
    UNION {TablesUpTo(keys, GroupPool, MaxGroupMembers) : keys \in SUBSET {"G", "H"}}

GroupAliases == [a \in {"A"} |-> <<Addr("G"), Ref("H")>>]

GroupUniverses ==
    {Universe(GroupAliases, g, DefaultInterfaces, DefaultPolicies, NoPolicies) :
        g \in GroupTables}

(* Interfaces: any order, zones, primary and secondary addresses. *)
IfAddrPool == {<<Ip1, Mask24>>, <<Ip2, Mask16>>}
IfZones == {"Trusted", "Optional", "External", "Custom"}
IfNameOrders == {<<>>, <<"eth0">>, <<"eth1">>, <<"eth0", "eth1">>, <<"eth1", "eth0">>}

InterfaceTables ==
    LET addrs == ListsUpTo(IfAddrPool, MaxIfAddrs)
        infos(n) == {parseInterface(n, z, a) : z \in IfZones, a \in addrs}
    IN  UNION {IF Len(o) = 0 THEN {<<>>}
               ELSE IF Len(o) = 1 THEN {<<i>> : i \in infos(o[1])}
               ELSE {<<i, j>> : i \in infos(o[1]), j \in infos(o[2])} :
               o \in IfNameOrders}

DomainAliases ==
    [a \in {"A", "B", "C", "D", "E"} |->
        IF a = "A" THEN <<IfAny("eth0", ""), Builtin("Any-External")>>
        ELSE IF a = "B" THEN <<IfAny("eth9", "Trusted")>>
        ELSE IF a = "C" THEN <<IfAny("", "")>>
        ELSE IF a = "D" THEN <<IfAny("eth0", "External")>>
        ELSE <<IfAny("eth9", "")>>]

DomainUniverses ==
    {Universe(DomainAliases, DefaultGroups, i, DefaultPolicies, NoPolicies) :
        i \in InterfaceTables}

(* One alias with unresolved references among resolvable members, some of *)
(* them one alias further down.                                           *)
MaxNoteMembers == 4   \* members of the alias of the unresolved-reference inputs

NotePool == {Ref("X"), Ref("Y"), Ref("B"), Addr("Missing"), Addr("G")}

NoteTables ==
    {[a \in {"A", "B"} |-> IF a = "A" THEN l ELSE <<Ref("Z"), Addr("H")>>] :
        l \in ListsUpTo(NotePool, MaxNoteMembers)}

NoteUniverses ==
    {Universe(t, DefaultGroups, DefaultInterfaces, DefaultPolicies, NoPolicies) :
        t \in NoteTables}

(* A diamond: A refers to B and C, both refer to D; D may refer back. *)
MaxDiamondMembers == 2   \* members of alias D of the diamond inputs

DiamondPool == {Ref("A"), Addr("G"), Addr("H")}

DiamondTables ==
    {[a \in {"A", "B", "C", "D"} |->
         IF a = "A" THEN <<Ref("B"), Ref("C")>>
         ELSE IF a = "B" THEN <<Ref("D")>>
         ELSE IF a = "C" THEN <<Ref("D"), Addr("H")>>
         ELSE l] :
        l \in ListsUpTo(DiamondPool, MaxDiamondMembers)}

DiamondUniverses ==
    {Universe(t, DefaultGroups, DefaultInterfaces, DefaultPolicies, NoPolicies) :
        t \in DiamondTables}

ResolveUniverses ==
    GraphUniverses \cup ShadowUniverses \cup LeafUniverses \cup GroupUniverses
        \cup DomainUniverses \cup NoteUniverses \cup DiamondUniverses

(* The names a caller resolves. *)
CallNames ==
    {"A", "B", "C", "D", "E", "G", "H", "Missing", "Any", "Any-Trusted",
     "Any-Optional", "Any-External", "Firebox", "constructor"}

-----------------------------------------------------------------------------
(* State *)

(* The local database (db.ts).  A table is the set of its rows, a row a   *)
(* record of the columns the operations below select on or read back;     *)
(* map_devices is kept in rowid order.  createdAt / updatedAt (touchMap)  *)
(* and the descriptive columns of the LAN tables are left out.  An id     *)
(* made by uuid() is an argument: a value no row holds yet.               *)

Null == "null"

(* initDb on an empty store *)
NoDb ==
    [maps |-> {}, map_xml |-> {}, map_devices |-> <<>>, annotations2 |-> {},
     lan_switches |-> {}, lan_ports |-> {}, lan_vlans |-> {},
     lan_port_vlans |-> {}, lan_hosts |-> {}, lan_bindings |-> {},
     lan_notes |-> {}, lan_locations |-> {}]

(* x || null *)
OrNull(x) == IF x = "" \/ x = Undefined THEN Null ELSE x

createMap(d, id, devId, name, xmlName, xmlText) ==
    [d EXCEPT
       !.maps = @ \cup {[id |-> id, name |-> name, xmlName |-> OrNull(xmlName)]},
       !.map_xml = @ \cup {[id |-> id, xml |-> xmlText]},
       !.map_devices =
           Append(@, [mapId |-> id, devId |-> devId,
                      name |-> IF OrNull(xmlName) # Null THEN xmlName ELSE name,
                      xml |-> xmlText])]

(* getMapXmlText returns null *)
NoRow == [found |-> FALSE]

getMapXmlText(d, id) ==
    IF \A row \in d.maps : row.id # id THEN NoRow
    ELSE IF \A row \in d.map_xml : row.id # id THEN NoRow
    ELSE LET row1 == CHOOSE row \in d.maps : row.id = id
             row2 == CHOOSE row \in d.map_xml : row.id = id
         IN  [found |-> TRUE, xmlText |-> row2.xml, name |-> row1.name,
              xmlName |-> row1.xmlName]

addMapDevice(d, mapId, devId, name, xmlText) ==
    [d EXCEPT !.map_devices =
         Append(@, [mapId |-> mapId, devId |-> devId,
                    name |-> OrNull(name), xml |-> xmlText])]

RECURSIVE SelectDevices(_, _)
SelectDevices(rows, mapId) ==
    IF rows = <<>> THEN <<>>
    ELSE (IF Head(rows).mapId = mapId
          THEN <<[devId |-> Head(rows).devId, name |-> Head(rows).name,
                  xml |-> Head(rows).xml]>>
          ELSE <<>>) \o SelectDevices(Tail(rows), mapId)

listMapDevices(d, mapId) == SelectDevices(d.map_devices, mapId)

RECURSIVE DeviceEntries(_)
DeviceEntries(devs) ==
    IF devs = <<>> THEN <<>>
    ELSE <<[name |-> Head(devs).name, xmlText |-> Head(devs).xml]>>
             \o DeviceEntries(Tail(devs))

(* The primary XML of map_xml, then every row of map_devices. *)
getMapAllXmlTexts(d, mapId) ==
    (IF \E row \in d.map_xml : row.id = mapId
     THEN <<[name |-> Undefined,
             xmlText |-> (CHOOSE row \in d.map_xml : row.id = mapId).xml]>>
     ELSE <<>>) \o DeviceEntries(listMapDevices(d, mapId))

AnnotationRows(d, mapId) == {row \in d.annotations2 : row.mapId = mapId}

getAnnotationMapFor(d, mapId) ==
    {<<row.cidr, row.note>> : row \in AnnotationRows(d, mapId)}

getAnnotationOffsetsFor(d, mapId) ==
    {<<row.cidr, row.offset>> :
        row \in {x \in AnnotationRows(d, mapId) : x.offset # Null}}

getEdgeNotesFor(d, mapId) ==
    {<<row.cidr, row.edgeNote>> :
        row \in {x \in AnnotationRows(d, mapId) : x.edgeNote # Null}}

(* The row of (mapId, cidr), or `default` when there is none. *)
RowOr(d, mapId, cidr, default) ==
    IF \E row \in d.annotations2 : row.mapId = mapId /\ row.cidr = cidr
    THEN CHOOSE row \in d.annotations2 : row.mapId = mapId /\ row.cidr = cidr
    ELSE default

(* INSERT ... ON CONFLICT(mapId, cidr) DO UPDATE: `fresh` is the row to   *)
(* insert, `updated` the row a conflict leaves.                            *)
UpsertAnnotation(d, mapId, cidr, fresh, updated) ==
    [d EXCEPT !.annotations2 =
        IF \E row \in @ : row.mapId = mapId /\ row.cidr = cidr
        THEN {IF row.mapId = mapId /\ row.cidr = cidr THEN updated ELSE row :
                 row \in @}
        ELSE @ \cup {fresh}]

setAnnotationFor(d, mapId, cidr, note, offset) ==
    LET fresh == [mapId |-> mapId, cidr |-> cidr, note |-> note,
                  offset |-> offset, edgeNote |-> Null]
    IN  UpsertAnnotation(d, mapId, cidr, fresh,
            [RowOr(d, mapId, cidr, fresh) EXCEPT
               !.note = note,
               !.offset = IF offset # Null THEN offset ELSE @])

setAnnotationOffsetFor(d, mapId, cidr, offset) ==
    LET fresh == [mapId |-> mapId, cidr |-> cidr, note |-> "",
                  offset |-> offset, edgeNote |-> Null]
    IN  UpsertAnnotation(d, mapId, cidr, fresh,
            [RowOr(d, mapId, cidr, fresh) EXCEPT !.offset = offset])

setEdgeNoteFor(d, mapId, cidr, edgeNote) ==
    LET fresh == [mapId |-> mapId, cidr |-> cidr, note |-> "",
                  offset |-> Null, edgeNote |-> edgeNote]
    IN  UpsertAnnotation(d, mapId, cidr, fresh,
            [RowOr(d, mapId, cidr, fresh) EXCEPT !.edgeNote = edgeNote])

RECURSIVE RenameFirst(_, _, _)
RenameFirst(rows, mapId, name) ==
    IF rows = <<>> THEN <<>>
    ELSE IF Head(rows).mapId = mapId
    THEN <<[Head(rows) EXCEPT !.name = name]>> \o Tail(rows)
    ELSE <<Head(rows)>> \o RenameFirst(Tail(rows), mapId, name)

renameFirstDeviceForMap(d, mapId, name) ==
    [d EXCEPT !.map_devices = RenameFirst(@, mapId, name)]

(* INSERT ... ON CONFLICT(id) DO UPDATE of the columns left out here. *)
InsertById(rows, row) == IF \E x \in rows : x.id = row.id THEN rows ELSE rows \cup {row}

upsertLanSwitch(d, id, mapId) ==
    [d EXCEPT !.lan_switches = InsertById(@, [id |-> id, mapId |-> mapId])]

upsertLanPort(d, id, switchId) ==
    [d EXCEPT !.lan_ports = InsertById(@, [id |-> id, switchId |-> switchId])]

upsertLanVlan(d, id, mapId) ==
    [d EXCEPT !.lan_vlans = InsertById(@, [id |-> id, mapId |-> mapId])]

setPortVlanBinding(d, portId, vlanId) ==
    [d EXCEPT !.lan_port_vlans = @ \cup {[portId |-> portId, vlanId |-> vlanId]}]

upsertLanHost(d, id, mapId) ==
    [d EXCEPT !.lan_hosts = InsertById(@, [id |-> id, mapId |-> mapId])]

bindHostToPort(d, hostId, portId) ==
    [d EXCEPT !.lan_bindings = @ \cup {[hostId |-> hostId, portId |-> portId]}]

setLanNote(d, mapId, scope, scopeId) ==
    [d EXCEPT !.lan_notes =
         @ \cup {[mapId |-> mapId, scope |-> scope, scopeId |-> scopeId]}]

(* ON CONFLICT(mapId, name) DO UPDATE; an id already held by a row of     *)
(* another (mapId, name) violates the primary key and the insert throws.  *)
upsertLanLocation(d, mapId, name, locId) ==
    IF \E row \in d.lan_locations : row.mapId = mapId /\ row.name = name THEN d
    ELSE IF \E row \in d.lan_locations : row.id = locId THEN d
    ELSE [d EXCEPT !.lan_locations =
              @ \cup {[id |-> locId, mapId |-> mapId, name |-> name]}]

RECURSIVE WithoutMap(_, _)
WithoutMap(rows, id) ==
    IF rows = <<>> THEN <<>>
    ELSE (IF Head(rows).mapId = id THEN <<>> ELSE <<Head(rows)>>)
             \o WithoutMap(Tail(rows), id)

(* The eleven DELETE statements of deleteMap, in their order: each        *)
(* subselect reads the tables as the statements before it left them.      *)
deleteMap(d, id) ==
    LET hosts == {row.id : row \in {x \in d.lan_hosts : x.mapId = id}}
        switches == {row.id : row \in {x \in d.lan_switches : x.mapId = id}}
        ports == {row.id : row \in {x \in d.lan_ports : x.switchId \in switches}}
    IN  [d EXCEPT
           !.lan_notes = {row \in @ : row.mapId # id},
           !.lan_bindings = {row \in @ : row.hostId \notin hosts},
           !.lan_port_vlans = {row \in @ : row.portId \notin ports},
           !.lan_ports = {row \in @ : row.switchId \notin switches},
           !.lan_switches = {row \in @ : row.mapId # id},
           !.lan_vlans = {row \in @ : row.mapId # id},
           !.lan_hosts = {row \in @ : row.mapId # id},
           !.annotations2 = {row \in @ : row.mapId # id},
           !.map_devices = WithoutMap(@, id),
           !.map_xml = {row \in @ : row.id # id},
           !.maps = {row \in @ : row.id # id}]

(* The two Apps before anything is loaded. *)
(* The two loadMapById calls of a behaviour: the restore of the last map *)
(* after start-up and an Open from the menu.                              *)
LoadIds == {1, 2}

NoSnap ==
    [domain |-> Undefined, xmlPolicies |-> Undefined, xlsPolicies |-> Undefined,
     policies |-> Undefined]

NoInflight == [started |-> 0, pending |-> {}, done |-> <<>>, error |-> Null]

NoSession ==
    [mapId |-> Null, mapName |-> Null, lastXmlText |-> Null, lastXmlName |-> Null,
     snap |-> NoSnap, firewalls |-> <<>>, annotations |-> {}, labelOffsets |-> {},
     edgeNotes |-> {}, lastMapKey |-> Null]

IdleLoad == [pc |-> "idle"]

NoLoads == [p \in LoadIds |-> IdleLoad]

AppIdle ==
    /\ db = NoDb
    /\ snap = NoSnap
    /\ inflight = NoInflight
    /\ session = NoSession
    /\ loads = NoLoads

IsResolved == call.op = "resolveAlias"
IsMaterialized == call.op = "xmlPoliciesToUnified"

NoOverlap ==
    [a |-> HostCidr(Ip1), b |-> HostCidr(Ip1), op |-> "none",
     app |-> FALSE, pm |-> FALSE]

NoOther == [pc |-> "idle", name |-> "", stack |-> <<>>, seen |-> {}, r |-> Empty]

NoMerge ==
    [a |-> <<>>, b |-> <<>>, c |-> <<>>, op |-> "none", out |-> <<>>, prev |-> <<>>]

NoCall == [op |-> "none", name |-> "", r |-> Empty, unified |-> <<>>, out |-> <<>>]

Load(u) ==
    /\ aliasesByName = u.aliases
    /\ addrGroupsByName = u.groups
    /\ interfacesByName = u.ifaces
    /\ domain = toDomain(u.ifaces)
    /\ concrete = u.policies
    /\ abs = u.overlays
    /\ call = NoCall
    /\ pc = "idle"
    /\ stack = <<>>
    /\ seen = {}
    /\ expanded = <<>>
    /\ first = NoCall
    /\ merge = NoMerge
    /\ other = NoOther
    /\ ov = NoOverlap
    /\ AppIdle

Init == \E u \in ResolveUniverses : Load(u)

(* universe.resolveAlias(name), start to end *)
ResolveAlias(name) ==
    /\ call' = [NoCall EXCEPT !.op = "resolveAlias", !.name = name,
                              !.r = resolveAlias(name)]
    /\ UNCHANGED <<config, appState, other, ov, merge, pc, stack, seen, expanded, first>>

(* xmlPoliciesToUnified(raw, universe), start to end; `unified` is its   *)
(* local array as it stands before the deduplication loop.                *)
XmlPoliciesToUnified ==
    /\ call' = [NoCall EXCEPT !.op = "xmlPoliciesToUnified",
                              !.unified = unifiedBeforeDedup(concrete, abs),
                              !.out = xmlPoliciesToUnified(concrete, abs)]
    /\ UNCHANGED <<config, appState, other, ov, merge, pc, stack, seen, expanded, first>>

Next ==
    \/ \E name \in CallNames : ResolveAlias(name)
    \/ XmlPoliciesToUnified

Spec == Init /\ [][Next]_vars

-----------------------------------------------------------------------------
(* resolveAlias step by step: one action per entry into                    *)
(* resolveAliasInternal, per member of the loop and per return.  A frame   *)
(* is [name, at, members, acc]: `at` is "entry" before line 258 and "loop" *)
(* inside the member loop, `members` are the members still to visit and   *)
(* `acc` is {cidrs, hosts, notes} as accumulated.                          *)

MaxStepMembers == 3   \* members in an alias table of the stepwise inputs

StepPool == {Ref("A"), Ref("B"), Ref("C"), Addr("G")}

StepUniverses ==
    {Universe(t, DefaultGroups, DefaultInterfaces, DefaultPolicies, NoPolicies) :
        t \in TablesUpTo({"A", "B", "C"}, StepPool, MaxStepMembers)}

StepCallNames == {"A", "B", "Firebox"}

InitSteps == \E u \in StepUniverses : Load(u)

EntryFrame(name) == [name |-> name, at |-> "entry", members |-> <<>>, acc |-> Empty]

Top == stack[Len(stack)]
Below == SubSeq(stack, 1, Len(stack) - 1)

(* The innermost call returns r: to the frame below it, which adds r to   *)
(* what it has accumulated, or to the caller of resolveAlias.             *)
ReturnTo(frames, r) ==
    IF frames = <<>>
    THEN /\ stack' = <<>>
         /\ pc' = "done"
         /\ call' = [NoCall EXCEPT !.op = "resolveAlias", !.name = Top.name, !.r = r]
         /\ first' = IF first.op = "none" THEN call' ELSE first
    ELSE /\ stack' = [frames EXCEPT ![Len(frames)].acc = unionInto(@, r)]
         /\ UNCHANGED <<pc, call, first>>

(* Mutant: the visited set of the previous call is used again. *)
Call_keepsVisited(name) ==
    /\ pc \in {"idle", "done"}
    /\ pc' = "running"
    /\ seen' = seen
    /\ expanded' = <<>>
    /\ stack' = <<EntryFrame(name)>>
    /\ call' = NoCall
    /\ UNCHANGED <<config, appState, other, ov, merge, first>>

(* resolveAlias(name): resolveAliasInternal(name, new Set()) *)
Call(name) ==
    /\ pc \in {"idle", "done"}
    /\ pc' = "running"
    /\ seen' = {}
    /\ expanded' = <<>>
    /\ stack' = <<EntryFrame(name)>>
    /\ call' = NoCall
    /\ UNCHANGED <<config, appState, other, ov, merge, first>>

(* Lines 258-276: the visited test, seen.add, the builtin and the         *)
(* address-group answers, or the start of the member loop.                *)
Enter ==
    /\ pc = "running"
    /\ Top.at = "entry"
    /\ LET name == Top.name
       IN  IF name \in seen
           THEN /\ ReturnTo(Below, cycleResult(name))
                /\ UNCHANGED <<seen, expanded>>
           ELSE /\ seen' = seen \cup {name}
                /\ expanded' = Append(expanded, name)
                /\ IF isBuiltin(name) THEN ReturnTo(Below, builtinResult(name))
                   ELSE IF name \notin DOMAIN aliasesByName
                   THEN ReturnTo(Below, fallbackResult(name))
                   ELSE /\ stack' = [stack EXCEPT ![Len(stack)] =
                                [@ EXCEPT !.at = "loop",
                                          !.members = aliasesByName[name]]]
                        /\ UNCHANGED <<pc, call, first>>
    /\ UNCHANGED <<config, appState, other, ov, merge>>

(* One turn of the loop over node.members: an alias-ref calls             *)
(* resolveAliasInternal, every other kind is added in place.              *)
Member ==
    /\ pc = "running"
    /\ Top.at = "loop"
    /\ Top.members # <<>>
    /\ LET m == Head(Top.members)
           rest == [Top EXCEPT !.members = Tail(@)]
       IN  IF m.kind = "alias-ref"
           THEN stack' = Append(Append(Below, rest), EntryFrame(m.aliasName))
           ELSE stack' = Append(Below, [rest EXCEPT !.acc = leafMember(@, m)])
    /\ UNCHANGED <<config, appState, other, ov, merge, call, pc, seen, expanded, first>>

(* Mutant: a name leaves the visited set when its expansion returns. *)
Return_forgetsVisited ==
    /\ pc = "running"
    /\ Top.at = "loop"
    /\ Top.members = <<>>
    /\ ReturnTo(Below, Top.acc)
    /\ seen' = seen \ {Top.name}
    /\ UNCHANGED <<config, appState, other, ov, merge, expanded>>

(* Line 293: return { cidrs, hosts, notes } *)
Return ==
    /\ pc = "running"
    /\ Top.at = "loop"
    /\ Top.members = <<>>
    /\ ReturnTo(Below, Top.acc)
    /\ UNCHANGED <<config, appState, other, ov, merge, seen, expanded>>

NextSteps ==
    \/ \E name \in StepCallNames : Call(name)
    \/ Enter
    \/ Member
    \/ Return

SpecSteps == InitSteps /\ [][NextSteps]_vars

(* A call in progress is run to its end: the engine is synchronous. *)
FairSteps == SpecSteps /\ WF_vars(Enter \/ Member \/ Return)

-----------------------------------------------------------------------------
(* Two resolveAlias calls side by side *)

MaxTwoMembers == 3    \* members in an alias table of the two-call inputs

TwoPool == {Ref("A"), Ref("B"), Addr("G")}

TwoUniverses ==
    {Universe(t, DefaultGroups, DefaultInterfaces, DefaultPolicies, NoPolicies) :
        t \in TablesUpTo({"A", "B"}, TwoPool, MaxTwoMembers)}

TwoCallNames == {"A", "B"}

InitTwo == \E u \in TwoUniverses : Load(u)

(* One step of resolveAliasInternal on the frames `stk` of a call with    *)
(* the visited set `sn`: the frames and the visited set after it, and the *)
(* result when the outermost frame returned.                               *)
stepOf(stk, sn) ==
    LET top == stk[Len(stk)]
        below == SubSeq(stk, 1, Len(stk) - 1)
        returned(r, sn2) ==
            IF below = <<>>
            THEN [stack |-> <<>>, seen |-> sn2, done |-> TRUE, r |-> r]
            ELSE [stack |-> [below EXCEPT ![Len(below)].acc = unionInto(@, r)],
                  seen |-> sn2, done |-> FALSE, r |-> Empty]
        running(stk2, sn2) ==
            [stack |-> stk2, seen |-> sn2, done |-> FALSE, r |-> Empty]
    IN  IF top.at = "entry"
        THEN IF top.name \in sn THEN returned(cycleResult(top.name), sn)
             ELSE IF isBuiltin(top.name)
             THEN returned(builtinResult(top.name), sn \cup {top.name})
             ELSE IF top.name \notin DOMAIN aliasesByName
             THEN returned(fallbackResult(top.name), sn \cup {top.name})
             ELSE running(Append(below, [top EXCEPT !.at = "loop",
                                                    !.members = aliasesByName[top.name]]),
                          sn \cup {top.name})
        ELSE IF top.members = <<>> THEN returned(top.acc, sn)
        ELSE LET m == Head(top.members)
                 rest == [top EXCEPT !.members = Tail(@)]
             IN  IF m.kind = "alias-ref"
                 THEN running(Append(Append(below, rest), EntryFrame(m.aliasName)), sn)
                 ELSE running(Append(below, [rest EXCEPT !.acc = leafMember(@, m)]), sn)

(* The second call: resolveAlias(name) with its own new Set(). *)
OtherCall(name) ==
    /\ other.pc = "idle"
    /\ other' = [NoOther EXCEPT !.pc = "running", !.name = name,
                                !.stack = <<EntryFrame(name)>>]
    /\ UNCHANGED <<config, appState, ov, merge, call, pc, stack, seen, expanded, first>>

(* Mutant: the second call works on the visited set of the first. *)
OtherStep_sharedVisited ==
    /\ other.pc = "running"
    /\ LET n == stepOf(other.stack, seen)
       IN  /\ other' = [other EXCEPT !.stack = n.stack, !.seen = n.seen, !.r = n.r,
                                     !.pc = IF n.done THEN "done" ELSE "running"]
           /\ seen' = n.seen
    /\ UNCHANGED <<config, appState, ov, merge, call, pc, stack, expanded, first>>

(* One step of the second call, between any two steps of the first. *)
OtherStep ==
    /\ other.pc = "running"
    /\ LET n == stepOf(other.stack, other.seen)
       IN  other' = [other EXCEPT !.stack = n.stack, !.seen = n.seen, !.r = n.r,
                                  !.pc = IF n.done THEN "done" ELSE "running"]
    /\ UNCHANGED <<config, appState, ov, merge, call, pc, stack, seen, expanded, first>>

(* The first call starts once. *)
FirstCall(name) == pc = "idle" /\ Call(name)

NextTwo ==
    \/ \E name \in TwoCallNames : FirstCall(name)
    \/ Enter
    \/ Member
    \/ Return
    \/ \E name \in TwoCallNames : OtherCall(name)
    \/ OtherStep
    \/ XmlPoliciesToUnified

SpecTwo == InitTwo /\ [][NextTwo]_vars

-----------------------------------------------------------------------------
(* Materialization inputs: base policies and overlays over one alias      *)
(* table with a cycle (A, B), an unresolvable name and the device.        *)

MaxEndpoints == 2     \* names in the from and to lists of a base policy
MaxOverlayNames == 3  \* names in the targets, from and to lists of an overlay

MatAliases ==
    [a \in {"A", "B", "C"} |->
        IF a = "A" THEN <<Ref("B"), Addr("G")>>
        ELSE IF a = "B" THEN <<Ref("A")>>
        ELSE <<Addr("H"), Builtin("Firebox")>>]

EndpointNames == {"A", "C", "Missing"}

(* Every [from, to, targets] of at most k names in all. *)
RECURSIVE NameListsUpTo(_, _)
NameListsUpTo(targetNames, k) ==
    IF k = 0 THEN {[from |-> <<>>, to |-> <<>>, targets |-> <<>>]}
    ELSE LET prev == NameListsUpTo(targetNames, k - 1)
         IN  prev
             \cup {[l EXCEPT !.from = Append(@, n)] : l \in prev, n \in EndpointNames}
             \cup {[l EXCEPT !.to = Append(@, n)] : l \in prev, n \in EndpointNames}
             \cup {[l EXCEPT !.targets = Append(@, n)] : l \in prev, n \in targetNames}

BasePolicyPool ==
    {Policy(n, n, IF n = "P1" THEN "HTTP" ELSE Undefined, l.from, l.to, {}) :
        n \in {"P1", "P2"}, l \in NameListsUpTo({}, MaxEndpoints)}

BasePolicyLists ==
    {<<>>} \cup {<<p>> : p \in BasePolicyPool}
           \cup {<<p, q>> : p \in BasePolicyPool, q \in BasePolicyPool}

BaseUniverses ==
    {Universe(MatAliases, DefaultGroups, DefaultInterfaces, p, NoPolicies) :
        p \in BasePolicyLists}

OverlayPool ==
    {Overlay("O1", l.from, l.to, l.targets) :
        l \in NameListsUpTo({"P1", "P2", "P9"}, MaxOverlayNames)}

SecondOverlay == Overlay("O2", <<"C">>, <<>>, <<"P1">>)

OverlayLists ==
    {<<o>> : o \in OverlayPool} \cup {<<o, SecondOverlay>> : o \in OverlayPool}

OverlaidPolicyLists ==
    {<<Policy("1", "P1", "HTTP", <<"A">>, <<"C">>, {"dnat"})>>,
     <<Policy("1", "P1", "HTTP", <<"A">>, <<"C">>, {}),
       Policy("2", "P2", Undefined, <<"Missing">>, <<>>, {"oneToOne"})>>,
     <<Policy("1", "P1", "HTTP", <<"A">>, <<"C">>, {}),
       Policy("2", "P1", "HTTP", <<"C">>, <<"A">>, {"dnat"})>>,
     <<Policy("1", "P1", Undefined, <<"A">>, <<>>, {}),
       Policy("2", "P1", Undefined, <<"A">>, <<>>, {})>>}

OverlayUniverses ==
    {Universe(MatAliases, DefaultGroups, DefaultInterfaces, p, o) :
        p \in OverlaidPolicyLists, o \in OverlayLists}

InitMat == \E u \in BaseUniverses \cup OverlayUniverses : Load(u)

NextMat == XmlPoliciesToUnified

SpecMat == InitMat /\ [][NextMat]_vars

-----------------------------------------------------------------------------
(* mergePolicies on policy lists *)

MaxMergeTotal == 3    \* policies in the lists handed to mergePolicies, in all

Net1 == [ip |-> Ip2, pfx |-> 24]
Net2 == [ip |-> <<9, 0, 0, 0>>, pfx |-> 8]

(* A UnifiedPolicy as parseXlsToUnified and xmlPoliciesToUnified build it. *)
Unified(id, name, service, srcCidrs, dstCidrs, source) ==
    [id |-> id, name |-> name, service |-> service,
     fromAliases |-> <<>>, toAliases |-> <<>>,
     srcCidrs |-> srcCidrs, dstCidrs |-> dstCidrs,
     srcHosts |-> <<>>, dstHosts |-> <<>>,
     source |-> source, nat |-> {}, tags |-> <<>>, debug |-> <<>>]

(* X with one CIDR (twice, under two ids), with two CIDRs in both orders, *)
(* with one CIDR repeated, with a destination; and Y in the legacy shape. *)
(* mergePolicies takes any policy-like object (AnyPolicy, "older shapes"), *)
(* not only what the two parsers of this version build, so a list may     *)
(* hold an entry twice.                                                    *)
MergePool ==
    {Unified("1", "X", Undefined, <<Net1>>, <<>>, "XML"),
     Unified("xls_1", "X", Undefined, <<Net1>>, <<>>, "XLS"),
     Unified("2", "X", Undefined, <<Net1, Net2>>, <<>>, "XML"),
     Unified("xls_2", "X", Undefined, <<Net2, Net1>>, <<>>, "XLS"),
     Unified("xls_3", "X", Undefined, <<Net1, Net1>>, <<>>, "XLS"),
     Unified("3", "X", "HTTP", <<Net1>>, <<Net2>>, "XML"),
     [name |-> "Y", service |-> "HTTP", from |-> <<"A", "">>, to |-> <<>>]}

(* Every [a, b, c] of at most k policies in all. *)
RECURSIVE MergeListsUpTo(_)
MergeListsUpTo(k) ==
    IF k = 0 THEN {[a |-> <<>>, b |-> <<>>, c |-> <<>>]}
    ELSE LET prev == MergeListsUpTo(k - 1)
         IN  prev
             \cup {[l EXCEPT !.a = Append(@, p)] : l \in prev, p \in MergePool}
             \cup {[l EXCEPT !.b = Append(@, p)] : l \in prev, p \in MergePool}
             \cup {[l EXCEPT !.c = Append(@, p)] : l \in prev, p \in MergePool}

(* The configurations whose policies are materialized and then merged:   *)
(* base policies of one name, overlays whose variants repeat a base       *)
(* policy or one another.                                                  *)
MergeOverlayLists ==
    {<<Overlay("O1", <<>>, <<>>, <<"P1">>)>>,
     <<Overlay("O1", <<"C">>, <<>>, <<"P1", "P1">>)>>}

MergePolicyLists ==
    OverlaidPolicyLists
        \cup {<<Policy("1", "P1", "HTTP", <<"A">>, <<"C">>, {}),
                Policy("9", "Y", "HTTP", <<>>, <<>>, {})>>}

MergeUniverses ==
    {Universe(MatAliases, DefaultGroups, DefaultInterfaces, p, o) :
        p \in MergePolicyLists, o \in MergeOverlayLists}

NoXmlUniverse ==
    Universe(MatAliases, DefaultGroups, DefaultInterfaces, NoPolicies, NoPolicies)

InitMerge ==
    \E u \in MergeUniverses \cup {NoXmlUniverse}, l \in MergeListsUpTo(MaxMergeTotal) :
        /\ u \in MergeUniverses => (l.a = <<>> /\ l.c = <<>> /\ Len(l.b) <= 1)
        /\ aliasesByName = u.aliases
        /\ addrGroupsByName = u.groups
        /\ interfacesByName = u.ifaces
        /\ domain = toDomain(u.ifaces)
        /\ concrete = u.policies
        /\ abs = u.overlays
        /\ call = NoCall
        /\ pc = "idle"
        /\ stack = <<>>
        /\ seen = {}
        /\ expanded = <<>>
        /\ first = NoCall
        /\ merge = [NoMerge EXCEPT !.a = l.a, !.b = l.b, !.c = l.c]
        /\ other = NoOther
        /\ ov = NoOverlap
        /\ AppIdle

Merged(op, out) ==
    /\ merge' = [merge EXCEPT !.op = op, !.out = out, !.prev = merge.out]
    /\ UNCHANGED <<config, appState, other, ov, call, pc, stack, seen, expanded, first>>

(* mergePolicies(a, b) *)
MergePolicies == Merged("merge", mergePolicies(merge.a, merge.b))

(* mergePolicies(a, a) *)
MergeWithItself == Merged("self", mergePolicies(merge.a, merge.a))

(* mergePolicies(merged, []) on the result of an earlier merge *)
MergeAgain ==
    /\ merge.op \in {"merge", "self"}
    /\ Merged("again", mergePolicies(merge.out, <<>>))

(* mergePolicies(mergePolicies(a, b), c) *)
MergeLeft ==
    Merged("left", mergePolicies(mergePolicies(merge.a, merge.b), merge.c))

(* mergePolicies(a, mergePolicies(b, c)) *)
MergeRight ==
    Merged("right", mergePolicies(merge.a, mergePolicies(merge.b, merge.c)))

(* App: xmlPolicies = xmlPoliciesToUnified(raw, univ), then               *)
(* mergePolicies(xmlPolicies, prev.xlsPolicies).                           *)
MergeXml ==
    /\ IsMaterialized
    /\ merge.op = "none"
    /\ merge' = [merge EXCEPT !.a = call.out, !.op = "merge",
                              !.out = mergePolicies(call.out, merge.b)]
    /\ UNCHANGED <<config, appState, other, ov, call, pc, stack, seen, expanded, first>>

NextMerge ==
    \/ XmlPoliciesToUnified
    \/ MergeXml
    \/ MergePolicies
    \/ MergeWithItself
    \/ MergeAgain
    \/ MergeLeft
    \/ MergeRight

SpecMerge == InitMerge /\ [][NextMerge]_vars

-----------------------------------------------------------------------------
(* The overlap tests on pairs of CIDRs *)

(* Addresses of both halves of the address space, network addresses and   *)
(* addresses with host bits.                                               *)
OverlapIps ==
    {<<0, 0, 0, 0>>, Ip1, Ip2, <<10, 128, 0, 0>>, <<127, 255, 255, 255>>,
     <<128, 0, 0, 0>>, Ip4, <<200, 0, 0, 0>>, <<255, 255, 255, 255>>}

OverlapCidrs == {[ip |-> i, pfx |-> p] : i \in OverlapIps, p \in 0 .. 32}

InitOverlap ==
    /\ aliasesByName = MatAliases
    /\ addrGroupsByName = DefaultGroups
    /\ interfacesByName = DefaultInterfaces
    /\ domain = toDomain(DefaultInterfaces)
    /\ concrete = NoPolicies
    /\ abs = NoPolicies
    /\ call = NoCall
    /\ pc = "idle"
    /\ stack = <<>>
    /\ seen = {}
    /\ expanded = <<>>
    /\ first = NoCall
    /\ merge = NoMerge
    /\ other = NoOther
    /\ \E a, b \in OverlapCidrs : ov = [NoOverlap EXCEPT !.a = a, !.b = b]
    /\ AppIdle

(* overlaps(a, b), asked of both implementations *)
Overlaps ==
    /\ ov.op = "none"
    /\ ov' = [ov EXCEPT !.op = "overlaps",
                        !.app = overlapsApp(ov.a, ov.b),
                        !.pm = overlaps(ov.a, ov.b)]
    /\ UNCHANGED <<config, appState, other, merge, call, pc, stack, seen, expanded, first>>

NextOverlap == Overlaps

SpecOverlap == InitOverlap /\ [][NextOverlap]_vars

-----------------------------------------------------------------------------
(* The alias table as a graph *)


RefTargets(a) ==
    {aliasesByName[a][i].aliasName :
        i \in {j \in DOMAIN aliasesByName[a] :
                  aliasesByName[a][j].kind = "alias-ref"}}

(* The alias-ref members of alias a; with `expandedOnly`, of an alias the *)
(* resolver expands (one whose name it does not take for a builtin).      *)
Succ(a, expandedOnly) ==
    IF a \in DOMAIN aliasesByName /\ (~expandedOnly \/ ~isBuiltin(a))
    THEN RefTargets(a) ELSE {}

RECURSIVE ReachAll(_, _)
ReachAll(S, expandedOnly) ==
    LET T == S \cup UNION {Succ(a, expandedOnly) : a \in S}
    IN  IF T = S THEN S ELSE ReachAll(T, expandedOnly)

(* The names one or more alias-ref steps away from a. *)
ReachPlus(a, expandedOnly) == ReachAll(Succ(a, expandedOnly), expandedOnly)

OnCycle(a) == a \in ReachPlus(a, FALSE)
OnExpandedCycle(a) == a \in ReachPlus(a, TRUE)

IsCycleNote(note) == Len(note) = 2 /\ note[1] = "Cycle detected at"
HasCycleNote(r) == \E i \in DOMAIN r.notes : IsCycleNote(r.notes[i])

-----------------------------------------------------------------------------
(* C2, as stated: resolving a name that lies on a cycle of alias-ref      *)
(* members of the alias table returns at least one "Cycle detected" note. *)
C2_CycleNoteOnEveryTableCycle ==
    (IsResolved /\ OnCycle(call.name)) => HasCycleNote(call.r)

(* C2, amended: resolving a name that lies on a cycle of alias-ref        *)
(* members, none of whose names the resolver takes for a builtin, returns *)
(* at least one "Cycle detected" note.                                    *)
C2_CycleNoteOnExpandedCycle ==
    (IsResolved /\ OnExpandedCycle(call.name)) => HasCycleNote(call.r)

C2_Witness ==
    /\ IsResolved /\ call.name = "A"
    /\ OnExpandedCycle("A") /\ "A" \notin RefTargets("A")
    /\ HasCycleNote(call.r)

(* C3: with A = [alias-ref B] and B = [alias-ref A], resolving A returns  *)
(* no CIDR, no host and exactly one note, a "Cycle detected" note naming  *)
(* one of the two aliases.                                                *)
C3_TwoAliasCycle ==
    \A a, b \in DOMAIN aliasesByName :
        (/\ IsResolved /\ call.name = a
         /\ ~isBuiltin(a) /\ ~isBuiltin(b)
         /\ aliasesByName[a] = <<Ref(b)>>
         /\ aliasesByName[b] = <<Ref(a)>>)
        => /\ call.r.cidrs = <<>>
           /\ call.r.hosts = <<>>
           /\ call.r.notes \in {<<CycleNote(a)>>, <<CycleNote(b)>>}

C3_Witness ==
    /\ IsResolved /\ call.name = "A"
    /\ {"A", "B"} \subseteq DOMAIN aliasesByName
    /\ aliasesByName["A"] = <<Ref("B")>>
    /\ aliasesByName["B"] = <<Ref("A")>>
    /\ call.r = [cidrs |-> <<>>, hosts |-> <<>>, notes |-> <<CycleNote("A")>>]

(* C5: resolveAlias("Any") returns the union of the CIDR lists of all     *)
(* interfaces, no host and no note.                                       *)
C5_AnyIsUnionOfInterfaces ==
    (IsResolved /\ call.name = "Any")
    => /\ Range(call.r.cidrs) =
              UNION {Range(interfacesByName[i].cidrs) : i \in DOMAIN interfacesByName}
       /\ call.r.hosts = <<>>
       /\ call.r.notes = <<>>

C5_Witness ==
    /\ IsResolved /\ call.name = "Any"
    /\ Len(interfacesByName) = 2
    /\ interfacesByName[1].zone # interfacesByName[2].zone
    /\ Len(interfacesByName[1].cidrs) = 2
    /\ Cardinality(Range(call.r.cidrs)) = 2
    /\ Range(interfacesByName[2].cidrs) \subseteq Range(call.r.cidrs)

(* C6: a materialized policy whose endpoint list names Firebox, or an     *)
(* alias whose expansion reaches the Firebox builtin, carries the note    *)
(* "Firebox (device) has no address space" for that name in its debug     *)
(* notes, and Firebox adds no CIDR and no host to it.                     *)
NamesFireboxMember(a) ==
    \E i \in DOMAIN aliasesByName[a] :
        aliasesByName[a][i] = Builtin("Firebox")

FireboxReached(n) ==
    \E a \in {n} \cup ReachPlus(n, TRUE) :
        \/ a = "Firebox"
        \/ a \in DOMAIN aliasesByName /\ ~isBuiltin(a) /\ NamesFireboxMember(a)

WithoutFirebox(names) == SelectSeq(names, LAMBDA n : n # "Firebox")

C6_FireboxNotePropagates ==
    IsMaterialized =>
        \A i \in DOMAIN call.unified :
            LET u == call.unified[i]
            IN  /\ \A n \in Range(u.fromAliases) \cup Range(u.toAliases) :
                       FireboxReached(n)
                       => PrefixNote(n, FireboxNote) \in Range(u.debug)
                /\ u.srcCidrs = resolveAliasList(WithoutFirebox(u.fromAliases)).cidrs
                /\ u.srcHosts = resolveAliasList(WithoutFirebox(u.fromAliases)).hosts
                /\ u.dstCidrs = resolveAliasList(WithoutFirebox(u.toAliases)).cidrs
                /\ u.dstHosts = resolveAliasList(WithoutFirebox(u.toAliases)).hosts
                /\ u.toAliases = <<"Firebox">>
                       => u.dstCidrs = <<>> /\ u.dstHosts = <<>>

(* P1 names Firebox directly; P2 names B, which reaches the builtin       *)
(* member of C through an alias-ref.                                      *)
C6_Witness ==
    /\ IsMaterialized
    /\ {"B", "C"} \subseteq DOMAIN aliasesByName
    /\ Len(call.unified) = 2
    /\ aliasesByName["B"] = <<Ref("C")>>
    /\ aliasesByName["C"] = <<Addr("G"), Builtin("Firebox")>>
    /\ PrefixNote("Firebox", FireboxNote) \in Range(call.unified[1].debug)
    /\ call.unified[1].dstCidrs = <<>>
    /\ PrefixNote("B", FireboxNote) \in Range(call.unified[2].debug)
    /\ call.unified[2].srcCidrs # <<>>

(* C7: every host of a resolveAlias result and of a materialized policy   *)
(* has its /32 in the CIDR set of the same side; an address-group yields  *)
(* h and h/32 for a host member and only the CIDR for a network member.   *)
PrefixOfMask(mask) == IF mask = Mask24 THEN 24 ELSE IF mask = Mask16 THEN 16 ELSE 0 - 1

MembersOfKind(g, kind) ==
    {addrGroupsByName[g][i] :
        i \in {j \in DOMAIN addrGroupsByName[g] : addrGroupsByName[g][j].kind = kind}}

HostsHaveSlash32(hosts, cidrs) ==
    \A h \in Range(hosts) : [ip |-> h, pfx |-> 32] \in Range(cidrs)

C7_HostsAreSlash32Cidrs ==
    /\ IsResolved => HostsHaveSlash32(call.r.hosts, call.r.cidrs)
    /\ IsMaterialized =>
          \A i \in DOMAIN call.unified :
              /\ HostsHaveSlash32(call.unified[i].srcHosts, call.unified[i].srcCidrs)
              /\ HostsHaveSlash32(call.unified[i].dstHosts, call.unified[i].dstCidrs)
    /\ (/\ IsResolved /\ ~isBuiltin(call.name)
         /\ call.name \notin DOMAIN aliasesByName
         /\ call.name \in DOMAIN addrGroupsByName)
        => /\ Range(call.r.hosts) = {m.ip : m \in MembersOfKind(call.name, "host")}
           /\ Range(call.r.cidrs) =
                  {[ip |-> m.ip, pfx |-> 32] : m \in MembersOfKind(call.name, "host")}
                  \cup {[ip |-> m.ip, pfx |-> PrefixOfMask(m.mask)] :
                            m \in MembersOfKind(call.name, "network")}

(* The scenario: G = [host 10.0.0.5, network 10.1.0.0/255.255.255.0]. *)
C7_Witness ==
    /\ IsResolved /\ call.name = "G"
    /\ addrGroupsByName["G"] = <<Host(Ip1), Network(Ip2, Mask24)>>
    /\ call.r.cidrs = <<[ip |-> Ip1, pfx |-> 32], [ip |-> Ip2, pfx |-> 24]>>
    /\ call.r.hosts = <<Ip1>>

(* C8: for a name that is no builtin and no alias, resolveAlias returns   *)
(* the "Alias not found" note with empty sets exactly when no             *)
(* address-group of that name exists; an existing group, whatever its     *)
(* members, is returned as its expansion without that note.               *)
C8_NotFoundIffNoGroup ==
    (IsResolved /\ ~isBuiltin(call.name) /\ call.name \notin DOMAIN aliasesByName)
    => /\ (call.r = [Empty EXCEPT !.notes = <<AliasNotFoundNote(call.name)>>])
              <=> call.name \notin DOMAIN addrGroupsByName
       /\ call.name \in DOMAIN addrGroupsByName
              => /\ call.r = expandAddressGroup(call.name)
                 /\ AliasNotFoundNote(call.name) \notin Range(call.r.notes)

(* C1: a top-level resolveAlias call ends, and within it no name passes   *)
(* seen.add (is expanded) more than once.                                 *)
ExpandedOnce ==
    \A i, j \in DOMAIN expanded : expanded[i] = expanded[j] => i = j

C1_TerminatesExpandingOnce ==
    /\ []ExpandedOnce
    /\ [](Len(stack) <= Cardinality(seen) + 1)
    /\ (pc = "running") ~> (pc = "done")

(* A cycle through all three aliases, resolved to its end. *)
C1_Witness ==
    /\ pc = "done" /\ call.name = "A"
    /\ aliasesByName["A"] = <<Ref("B")>>
    /\ aliasesByName["B"] = <<Ref("C")>>
    /\ aliasesByName["C"] = <<Ref("A")>>
    /\ expanded = <<"A", "B", "C">>

(* C4: a resolveAlias call returns what the first call of this behaviour  *)
(* for the same name returned, whatever calls came between, and what the  *)
(* resolution computed in one piece returns.                              *)
C4_CallHistoryIndependent ==
    /\ (pc = "done" /\ call.name = first.name) => call.r = first.r
    /\ pc = "done" => call.r = resolveAlias(call.name)

C4_Witness ==
    /\ pc = "done" /\ call.name = "A" /\ first.name = "B"
    /\ OnExpandedCycle("A") /\ "B" \in ReachPlus("A", TRUE)
    /\ call.r.cidrs # <<>>

-----------------------------------------------------------------------------
(* Claims about materialization *)

ResolvedCidrs(names) == UNION {Range(resolveAlias(n).cidrs) : n \in Range(names)}
ResolvedHosts(names) == UNION {Range(resolveAlias(n).hosts) : n \in Range(names)}

(* e carries the name, id and service of `node` and the endpoint lists    *)
(* fromNames and toNames with their resolution.                           *)
IsEntryOf(e, node, fromNames, toNames) ==
    /\ e.id = node.id /\ e.name = node.name /\ e.service = node.service
    /\ e.fromAliases = fromNames /\ e.toAliases = toNames
    /\ Range(e.srcCidrs) = ResolvedCidrs(fromNames)
    /\ Range(e.srcHosts) = ResolvedHosts(fromNames)
    /\ Range(e.dstCidrs) = ResolvedCidrs(toNames)
    /\ Range(e.dstHosts) = ResolvedHosts(toNames)

BaseNames == {concrete[k].name : k \in DOMAIN concrete}

(* The base policy an overlay target names: the last one of that name. *)
BaseNamed(target) ==
    concrete[CHOOSE k \in DOMAIN concrete :
                /\ concrete[k].name = target
                /\ \A l \in DOMAIN concrete : concrete[l].name = target => l <= k]

(* The (overlay, target) pairs whose target names a base policy. *)
OverlayHits ==
    {<<i, j>> \in (DOMAIN abs) \X (1 .. MaxOverlayNames + 1) :
        j \in DOMAIN abs[i].policyNames /\ abs[i].policyNames[j] \in BaseNames}

OverlayFrom(a, base) == IF a.fromNames # <<>> THEN a.fromNames ELSE base.fromNames
OverlayTo(a, base) == IF a.toNames # <<>> THEN a.toNames ELSE base.toNames

(* C9: before deduplication there is exactly one entry per base policy,   *)
(* in policy order, resolved from its from and to lists; the other        *)
(* entries are one per overlay target that names a base policy.           *)
C9_OneEntryPerBasePolicy ==
    IsMaterialized =>
        /\ Len(call.unified) = Len(concrete) + Cardinality(OverlayHits)
        /\ \A i \in DOMAIN concrete :
               IsEntryOf(call.unified[i], concrete[i],
                         concrete[i].fromNames, concrete[i].toNames)

(* Two policies; the first names an unresolvable and a cyclic alias. *)
C9_Witness ==
    /\ IsMaterialized
    /\ Len(concrete) = 2 /\ abs = <<>>
    /\ concrete[1].fromNames = <<"Missing", "A">>
    /\ concrete[2].toNames = <<"C">>
    /\ Len(call.unified) = 2
    /\ PrefixNote("Missing", AliasNotFoundNote("Missing")) \in Range(call.unified[1].debug)
    /\ PrefixNote("A", CycleNote("A")) \in Range(call.unified[1].debug)
    /\ call.unified[1].srcHosts = <<Ip1>>
    /\ call.unified[2].dstHosts = <<Ip4>>

(* C10, as stated: for every overlay target that names a base policy the  *)
(* result holds the base policy's entry and one further entry of that     *)
(* name resolved from the overlay's lists, or the base's where empty.     *)
C10_OverlayAddsAnEntry ==
    IsMaterialized =>
        \A h \in OverlayHits :
            LET a == abs[h[1]]
                base == BaseNamed(a.policyNames[h[2]])
            IN  \E k, l \in DOMAIN call.out :
                    /\ k # l
                    /\ IsEntryOf(call.out[k], base, base.fromNames, base.toNames)
                    /\ IsEntryOf(call.out[l], base, OverlayFrom(a, base), OverlayTo(a, base))

(* C10, amended: the list before deduplication holds such a further       *)
(* entry; the result holds an entry of the base's name with the sets the  *)
(* overlay's lists (or the base's where empty) resolve to, and it is an   *)
(* entry besides the base policy's own whenever name, service and         *)
(* resolved sets of the two differ.                                       *)
C10_OverlayAddsAnEntryUnlessDuplicate ==
    IsMaterialized =>
        \A h \in OverlayHits :
            LET a == abs[h[1]]
                base == BaseNamed(a.policyNames[h[2]])
                from == OverlayFrom(a, base)
                to == OverlayTo(a, base)
            IN  /\ \E m \in DOMAIN call.unified :
                       /\ m > Len(concrete)
                       /\ IsEntryOf(call.unified[m], base, from, to)
                /\ \E k, l \in DOMAIN call.out :
                       /\ call.out[k].name = base.name
                       /\ Range(call.out[k].srcCidrs) = ResolvedCidrs(base.fromNames)
                       /\ Range(call.out[k].srcHosts) = ResolvedHosts(base.fromNames)
                       /\ Range(call.out[k].dstCidrs) = ResolvedCidrs(base.toNames)
                       /\ Range(call.out[k].dstHosts) = ResolvedHosts(base.toNames)
                       /\ call.out[l].name = base.name
                       /\ Range(call.out[l].srcCidrs) = ResolvedCidrs(from)
                       /\ Range(call.out[l].srcHosts) = ResolvedHosts(from)
                       /\ Range(call.out[l].dstCidrs) = ResolvedCidrs(to)
                       /\ Range(call.out[l].dstHosts) = ResolvedHosts(to)
                       /\ (ResolvedCidrs(from) # ResolvedCidrs(base.fromNames)
                           \/ ResolvedHosts(from) # ResolvedHosts(base.fromNames)
                           \/ ResolvedCidrs(to) # ResolvedCidrs(base.toNames)
                           \/ ResolvedHosts(to) # ResolvedHosts(base.toNames))
                          => k # l

(* The scenario: P1 from [A] to [C], overlay O1 targets P1 with from [C]. *)
C10_Witness ==
    /\ IsMaterialized
    /\ Len(concrete) = 1
    /\ abs = <<Overlay("O1", <<"C">>, <<>>, <<"P1">>)>>
    /\ Len(call.out) = 2
    /\ call.out[1].name = "P1" /\ call.out[2].name = "P1"
    /\ call.out[1].fromAliases = <<"A">> /\ call.out[2].fromAliases = <<"C">>
    /\ call.out[2].srcHosts = <<Ip4>>
    /\ call.out[2].dstCidrs = call.out[1].dstCidrs

-----------------------------------------------------------------------------
(* Overlay targets that name no base policy *)

RemoveAt(s, j) == SubSeq(s, 1, j - 1) \o SubSeq(s, j + 1, Len(s))

(* The overlays with target j of overlay i taken out. *)
WithoutTarget(i, j) ==
    [abs EXCEPT ![i] = [@ EXCEPT !.policyNames = RemoveAt(@, j)]]

(* The (overlay, target) pairs whose target names no base policy. *)
OverlayMisses ==
    {<<i, j>> \in (DOMAIN abs) \X (1 .. MaxOverlayNames + 1) :
        j \in DOMAIN abs[i].policyNames /\ abs[i].policyNames[j] \notin BaseNames}

(* C11: a target that names no base policy is skipped: the result equals  *)
(* the result for the overlays without that target, and every target that *)
(* names a base policy still has its entry in the array built before      *)
(* deduplication.                                                          *)
C11_MissingTargetSkipped ==
    IsMaterialized =>
        /\ \A h \in OverlayMisses :
               call.out = xmlPoliciesToUnified(concrete, WithoutTarget(h[1], h[2]))
        /\ Len(call.unified) = Len(concrete) + Cardinality(OverlayHits)

(* An overlay whose first target is missing and whose second is applied,  *)
(* followed by a second overlay that is applied too.                       *)
C11_Witness ==
    /\ IsMaterialized
    /\ Len(concrete) = 1 /\ Len(abs) = 2
    /\ abs[1].policyNames = <<"P9", "P1">>
    /\ abs[1].toNames = <<"A">>
    /\ Len(call.out) = 3

-----------------------------------------------------------------------------
(* What an overlay variant keeps of its base policy *)

(* The position in `unified` of the entry pushed for overlay hit h: after *)
(* the base policies, in overlay order and, within an overlay, in target  *)
(* order.                                                                  *)
HitIndex(h) ==
    Len(concrete)
      + Cardinality({g \in OverlayHits :
                        g[1] < h[1] \/ (g[1] = h[1] /\ g[2] <= h[2])})

(* C12: the entry pushed for an overlay target carries the id, name,      *)
(* service and NAT flags of the base policy of that name; its reference   *)
(* lists are the overlay's or the base's; every entry of the result is    *)
(* one of the entries built before deduplication, unaltered.              *)
C12_OverlayKeepsBaseIdentity ==
    IsMaterialized =>
        /\ \A h \in OverlayHits :
               LET a == abs[h[1]]
                   base == BaseNamed(a.policyNames[h[2]])
                   e == call.unified[HitIndex(h)]
               IN  /\ e.id = base.id /\ e.name = base.name
                   /\ e.service = base.service /\ e.nat = base.nat
                   /\ e.fromAliases = OverlayFrom(a, base)
                   /\ e.toAliases = OverlayTo(a, base)
        /\ Range(call.out) \subseteq Range(call.unified)

(* Two policies named P1; the overlay is applied to the second, which has *)
(* the dnat flag, and its variant survives deduplication.                 *)
C12_Witness ==
    /\ IsMaterialized
    /\ Len(concrete) = 2
    /\ concrete[1].name = "P1" /\ concrete[2].name = "P1"
    /\ concrete[1].nat = {} /\ concrete[2].nat = {"dnat"}
    /\ abs = <<Overlay("O1", <<"C">>, <<"C">>, <<"P1">>)>>
    /\ Len(call.out) = 3
    /\ call.out[3].id = "2" /\ call.out[3].nat = {"dnat"}
    /\ call.out[3].service = "HTTP"
    /\ call.out[3].fromAliases = <<"C">>

-----------------------------------------------------------------------------
(* Deduplication keeps first occurrences *)

(* The positions of a key list that hold the first occurrence of a key. *)
FirstIndices(keys) ==
    {i \in DOMAIN keys : \A j \in 1 .. (i - 1) : keys[j] # keys[i]}

(* The n-th smallest member of a set of positions. *)
Nth(I, n) == CHOOSE i \in I : Cardinality({j \in I : j <= i}) = n

MergeInput == merge.a \o merge.b

MergeInputKeys == [i \in DOMAIN MergeInput |-> keyOf(normalize(MergeInput[i]))]

UnifiedKeys == [i \in DOMAIN call.unified |-> dedupKey(call.unified[i])]

Untagged(p) == [p EXCEPT !.source = ""]

(* C13: the result of mergePolicies(a, b) is the normalized policies of   *)
(* a followed by b at the first occurrence of each key (the key keyOf     *)
(* computes), in that order, so no two share a key and every key of the   *)
(* input occurs; the deduplication of xmlPoliciesToUnified relates its    *)
(* result to the array it built in the same way (with its own key).       *)
C13_FirstOccurrencesKept ==
    /\ merge.op = "merge" =>
           LET I == FirstIndices(MergeInputKeys)
           IN  /\ Len(merge.out) = Cardinality(I)
               /\ \A n \in DOMAIN merge.out :
                      Untagged(merge.out[n]) = Untagged(normalize(MergeInput[Nth(I, n)]))
               /\ \A m, n \in DOMAIN merge.out :
                      keyOf(merge.out[m]) = keyOf(merge.out[n]) => m = n
               /\ {keyOf(merge.out[n]) : n \in DOMAIN merge.out}
                      = {MergeInputKeys[i] : i \in DOMAIN MergeInput}
    /\ IsMaterialized =>
           LET I == FirstIndices(UnifiedKeys)
           IN  /\ Len(call.out) = Cardinality(I)
               /\ \A n \in DOMAIN call.out : call.out[n] = call.unified[Nth(I, n)]

(* Both passes drop something: the second overlay variant repeats the     *)
(* first, and the spreadsheet policy repeats the key of a base policy.    *)
C13_Witness ==
    /\ IsMaterialized /\ merge.op = "merge"
    /\ Len(call.unified) = 4 /\ Len(call.out) = 3
    /\ merge.a = call.out
    /\ Len(merge.b) = 1
    /\ Len(merge.out) = 3

-----------------------------------------------------------------------------
(* The key and the sets it stands for *)

ServiceOrEmpty(p) == IF p.service = Undefined THEN "" ELSE p.service

(* Same name, same service, same four sets. *)
SameMatchSpace(p, q) ==
    /\ p.name = q.name
    /\ ServiceOrEmpty(p) = ServiceOrEmpty(q)
    /\ Range(p.srcCidrs) = Range(q.srcCidrs)
    /\ Range(p.dstCidrs) = Range(q.dstCidrs)
    /\ Range(p.srcHosts) = Range(q.srcHosts)
    /\ Range(p.dstHosts) = Range(q.dstHosts)

MergeInputPolicies == {normalize(MergeInput[i]) : i \in DOMAIN MergeInput}

(* C14: two policies get the same key exactly when they have the same     *)
(* name, service and sets, whatever the order and repetition in their     *)
(* lists: for the policies mergePolicies is handed, and for the entries   *)
(* xmlPoliciesToUnified deduplicates.                                      *)
C14_KeyStandsForSets ==
    /\ merge.op = "merge" =>
           \A p, q \in MergeInputPolicies :
               SameMatchSpace(p, q) <=> keyOf(p) = keyOf(q)
    /\ IsMaterialized =>
           \A i, j \in DOMAIN call.unified :
               SameMatchSpace(call.unified[i], call.unified[j])
                   <=> dedupKey(call.unified[i]) = dedupKey(call.unified[j])

(* C14 for lists in different order: holds of keyOf, which sorts.  The    *)
(* policy lists here hold X with [Net1, Net2] and X with [Net2, Net1].    *)
C14_OrderIgnored ==
    merge.op = "merge" =>
        \A p, q \in MergeInputPolicies :
            (/\ SameMatchSpace(p, q)
             /\ Len(p.srcCidrs) = Cardinality(Range(p.srcCidrs))
             /\ Len(q.srcCidrs) = Cardinality(Range(q.srcCidrs)))
                => keyOf(p) = keyOf(q)

-----------------------------------------------------------------------------
(* Merging a list with itself *)

KeysOf(list) == [i \in DOMAIN list |-> keyOf(normalize(list[i]))]

DistinctKeys(list) ==
    \A i, j \in DOMAIN list : KeysOf(list)[i] = KeysOf(list)[j] => i = j

(* C15, as stated: mergePolicies(L, L) has the length and the key         *)
(* sequence of L, for every list L; merging a merged list again changes   *)
(* neither.                                                                *)
C15_SelfMergeKeepsLength ==
    /\ merge.op = "self" =>
           /\ Len(merge.out) = Len(merge.a)
           /\ KeysOf(merge.out) = KeysOf(merge.a)
    /\ merge.op = "again" =>
           /\ Len(merge.out) = Len(merge.prev)
           /\ KeysOf(merge.out) = KeysOf(merge.prev)

(* C15, amended: mergePolicies(L, L) has the length and key sequence of   *)
(* mergePolicies(L, []), which are those of L when no two policies of L   *)
(* have the same key; merging a merged list again changes neither.        *)
C15_SelfMergeKeepsFirstOccurrences ==
    /\ merge.op = "self" =>
           /\ KeysOf(merge.out) = KeysOf(mergePolicies(merge.a, <<>>))
           /\ Len(merge.out) = Cardinality(Range(KeysOf(merge.a)))
           /\ DistinctKeys(merge.a) =>
                  /\ Len(merge.out) = Len(merge.a)
                  /\ KeysOf(merge.out) = KeysOf(merge.a)
    /\ merge.op = "again" =>
           /\ Len(merge.out) = Len(merge.prev)
           /\ KeysOf(merge.out) = KeysOf(merge.prev)

(* The scenario, with a second policy: [X, Y] merged with itself. *)
C15_Witness ==
    /\ merge.op = "self"
    /\ Len(merge.a) = 2
    /\ merge.a[1].name = "X" /\ merge.a[2].name = "Y"
    /\ Len(merge.out) = 2
    /\ merge.out[1].name = "X" /\ merge.out[2].name = "Y"

-----------------------------------------------------------------------------
(* Grouping of merges *)

RightGrouped == mergePolicies(merge.a, mergePolicies(merge.b, merge.c))

(* C16, as stated: mergePolicies(mergePolicies(a, b), c) and              *)
(* mergePolicies(a, mergePolicies(b, c)) are the same list, origin tags   *)
(* included.                                                               *)
C16_MergeAssociative ==
    merge.op = "left" => merge.out = RightGrouped

(* C16, amended: the two groupings yield the same policies in the same    *)
(* order up to the origin tag; the tag is 'XML' for a policy kept from a  *)
(* and 'XLS' for one kept from c in both, and for one kept from b it is   *)
(* 'XML' in the left grouping and 'XLS' in the right one.                 *)
C16_MergeAssociativeUpToTags ==
    merge.op = "left" =>
        /\ Len(merge.out) = Len(RightGrouped)
        /\ \A n \in DOMAIN merge.out :
               LET l == merge.out[n]
                   r == RightGrouped[n]
                   inA == keyOf(l) \in Range(KeysOf(merge.a))
                   inB == keyOf(l) \in Range(KeysOf(merge.b))
               IN  /\ Untagged(l) = Untagged(r)
                   /\ l.source = (IF inA \/ inB THEN "XML" ELSE "XLS")
                   /\ r.source = (IF inA THEN "XML" ELSE "XLS")

(* One policy in each list, three keys. *)
C16_Witness ==
    /\ merge.op = "left"
    /\ Len(merge.a) = 1 /\ Len(merge.b) = 1 /\ Len(merge.c) = 1
    /\ Len(merge.out) = 3
    /\ merge.out[1].source = "XML"
    /\ merge.out[2].source = "XML"
    /\ merge.out[3].source = "XLS"
    /\ RightGrouped[2].source = "XLS"

-----------------------------------------------------------------------------
(* Origin tags *)

(* The first position of a key list that holds key k. *)
FirstWith(keys, k) ==
    CHOOSE i \in DOMAIN keys : keys[i] = k /\ \A j \in 1 .. (i - 1) : keys[j] # k

(* C17: a policy of the result of mergePolicies(a, b) is tagged 'XML'     *)
(* when its key occurs in a, and is then the first policy of that key in  *)
(* a, and 'XLS' otherwise; a key of both lists has no entry tagged 'XLS'. *)
C17_TaggedByKeptList ==
    merge.op = "merge" =>
        \A n \in DOMAIN merge.out :
            LET e == merge.out[n]
                ka == KeysOf(merge.a)
                kb == KeysOf(merge.b)
            IN  IF keyOf(e) \in Range(ka)
                THEN /\ e.source = "XML"
                     /\ e.id = normalize(merge.a[FirstWith(ka, keyOf(e))]).id
                ELSE /\ e.source = "XLS"
                     /\ keyOf(e) \in Range(kb)

(* X is in both lists, under two ids and both tagged otherwise by their   *)
(* producers; Y only in the second.                                        *)
C17_Witness ==
    /\ merge.op = "merge"
    /\ Len(merge.a) = 1 /\ Len(merge.b) = 2
    /\ Has(merge.a[1], "id") /\ Has(merge.b[1], "id")
    /\ merge.a[1].id = "xls_1" /\ merge.a[1].source = "XLS"
    /\ merge.b[1].id = "1" /\ merge.b[1].source = "XML"
    /\ Len(merge.out) = 2
    /\ merge.out[1].id = "xls_1" /\ merge.out[1].source = "XML"
    /\ merge.out[2].name = "Y" /\ merge.out[2].source = "XLS"

-----------------------------------------------------------------------------
(* Calls side by side *)

(* C18: no step of a resolveAlias or xmlPoliciesToUnified call changes    *)
(* the alias table, the address-group table, the interfaces or the        *)
(* Domain; and of two resolveAlias calls run in steps side by side, each  *)
(* returns what resolveAlias returns for its name when run alone.         *)
C18_CallsDoNotInterfere ==
    /\ [][config' = config]_vars
    /\ []((pc = "done" /\ IsResolved) => call.r = resolveAlias(call.name))
    /\ [](other.pc = "done" => other.r = resolveAlias(other.name))

(* Both calls ran at once through the cycle A -> B -> A, entered from     *)
(* either end: each found the cycle at its own name.                      *)
C18_Witness ==
    /\ pc = "done" /\ other.pc = "done" /\ IsResolved
    /\ call.name = "A" /\ other.name = "B"
    /\ aliasesByName["A"] = <<Ref("B"), Addr("G")>>
    /\ aliasesByName["B"] = <<Ref("A")>>
    /\ call.r.notes = <<CycleNote("A")>>
    /\ other.r.notes = <<CycleNote("B")>>
    /\ call.r.hosts = <<Ip1>> /\ other.r.hosts = <<Ip1>>

-----------------------------------------------------------------------------
(* Canonical form of a CIDR *)

Pow2(n) == IF n <= 0 THEN 1 ELSE 2 ^ n

(* The bits of octet k (1..4) that lie beyond the prefix. *)
HostBits(k, pfx) ==
    IF 8 * k - pfx >= 8 THEN 8 ELSE IF 8 * k - pfx <= 0 THEN 0 ELSE 8 * k - pfx

(* The address part has every bit beyond the prefix zero. *)
IsCanonical(c) == \A k \in 1 .. 4 : c.ip[k] % Pow2(HostBits(k, c.pfx)) = 0

AllCanonical(cidrs) == \A c \in Range(cidrs) : IsCanonical(c)

(* C19: every CIDR of the Domain (the interfaces' lists, the lists by     *)
(* interface and by zone) and every CIDR of the expansion of an           *)
(* address-group is in canonical form: its address part is the address    *)
(* masked down to the prefix.                                              *)
C19_CidrsCanonical ==
    /\ \A i \in DOMAIN domain.interfaces : AllCanonical(domain.interfaces[i].cidrs)
    /\ \A n \in DOMAIN domain.cidrsByInterface : AllCanonical(domain.cidrsByInterface[n])
    /\ \A z \in DOMAIN domain.zoneCidrs : AllCanonical(domain.zoneCidrs[z])
    /\ (/\ IsResolved /\ ~isBuiltin(call.name)
         /\ call.name \notin DOMAIN aliasesByName
         /\ call.name \in DOMAIN addrGroupsByName)
        => AllCanonical(call.r.cidrs)

-----------------------------------------------------------------------------
(* Overlap of CIDRs *)

(* The address with the bits beyond the prefix cleared, octet by octet. *)
NetworkOf(ip, pfx) == [k \in 1 .. 4 |-> ip[k] - (ip[k] % Pow2(HostBits(k, pfx)))]

(* b is a sub-range of a: its prefix is at least as long and its address  *)
(* lies in a's block.                                                      *)
SubRange(a, b) == a.pfx <= b.pfx /\ NetworkOf(b.ip, a.pfx) = NetworkOf(a.ip, a.pfx)

(* C20: both overlap tests answer true for a CIDR and itself, answer the  *)
(* same for (a, b) and (b, a), and answer true when b is a sub-range of   *)
(* a, for prefixes 0 to 32.                                                *)
C20_OverlapReflexiveSymmetric ==
    ov.op = "overlaps" =>
        /\ ov.a = ov.b => (ov.app /\ ov.pm)
        /\ ov.app = overlapsApp(ov.b, ov.a)
        /\ ov.pm = overlaps(ov.b, ov.a)
        /\ (SubRange(ov.a, ov.b) \/ SubRange(ov.b, ov.a)) => (ov.app /\ ov.pm)

(* 192.168.1.1/32 inside 128.0.0.0/1, asked with the smaller block first. *)
C20_Witness ==
    /\ ov.op = "overlaps"
    /\ ov.a = [ip |-> Ip4, pfx |-> 32]
    /\ ov.b = [ip |-> <<128, 0, 0, 0>>, pfx |-> 1]
    /\ ov.app /\ ov.pm

-----------------------------------------------------------------------------
(* Exactness of the overlap tests *)

ShorterPrefix(a, b) == IF a.pfx <= b.pfx THEN a.pfx ELSE b.pfx

(* The two blocks share an address: masked to the shorter prefix, the two *)
(* addresses are equal.                                                    *)
SharesAddress(a, b) ==
    NetworkOf(a.ip, ShorterPrefix(a, b)) = NetworkOf(b.ip, ShorterPrefix(a, b))

(* C21: overlaps(a, b) is true exactly when the addresses of a and b,     *)
(* masked to the shorter prefix, are equal, in both implementations and   *)
(* for addresses of both halves of the address space; policiesForSubnet   *)
(* returns a policy only if one of its CIDRs shares an address with the   *)
(* subnet.                                                                 *)
C21_OverlapExact ==
    ov.op = "overlaps" =>
        /\ ov.pm <=> SharesAddress(ov.a, ov.b)
        /\ ov.app <=> SharesAddress(ov.a, ov.b)
        /\ policiesForSubnet(<<Unified("1", "X", Undefined, <<ov.a>>, <<>>, "XML")>>, ov.b)
               # <<>> => SharesAddress(ov.a, ov.b)

(* The test of App.tsx alone is exact. *)
C21_AppOverlapExact ==
    ov.op = "overlaps" => (ov.app <=> SharesAddress(ov.a, ov.b))

-----------------------------------------------------------------------------
(* Interface-any members *)

InterfacesNamed(n) == {i \in DOMAIN interfacesByName : interfacesByName[i].name = n}
InterfacesOfZone(z) == {i \in DOMAIN interfacesByName : interfacesByName[i].zone = z}
CidrsOfInterfaces(I) == UNION {Range(interfacesByName[i].cidrs) : i \in I}

(* What an interface-any member stands for, read off the interface table. *)
InterfaceAnyCidrs(m) ==
    IF m.interface # "" /\ InterfacesNamed(m.interface) # {}
    THEN CidrsOfInterfaces(InterfacesNamed(m.interface))
    ELSE IF m.zone # "" THEN CidrsOfInterfaces(InterfacesOfZone(m.zone))
    ELSE CidrsOfInterfaces(DOMAIN interfacesByName)

OnlyInterfaceAny(a) ==
    /\ ~isBuiltin(a) /\ a \in DOMAIN aliasesByName
    /\ \A i \in DOMAIN aliasesByName[a] : aliasesByName[a][i].kind = "interface-any"

(* C22: an alias made of interface-any members resolves to the CIDRs of   *)
(* the named interface where it exists, else of the zone where one is     *)
(* given, else of all interfaces; with no host and no note.               *)
C22_InterfaceAnyContribution ==
    (IsResolved /\ OnlyInterfaceAny(call.name)) =>
        /\ Range(call.r.cidrs) =
               UNION {InterfaceAnyCidrs(aliasesByName[call.name][i]) :
                          i \in DOMAIN aliasesByName[call.name]}
        /\ call.r.hosts = <<>>
        /\ call.r.notes = <<>>

(* eth0 exists in zone Trusted; the member names eth0 and zone External,  *)
(* which holds eth1: only eth0's CIDRs are returned.                      *)
C22_Witness ==
    /\ IsResolved /\ call.name = "D"
    /\ "D" \in DOMAIN aliasesByName
    /\ aliasesByName["D"] = <<IfAny("eth0", "External")>>
    /\ Len(interfacesByName) = 2
    /\ interfacesByName[1] = parseInterface("eth0", "Trusted", <<<<Ip1, Mask24>>>>)
    /\ interfacesByName[2] = parseInterface("eth1", "External", <<<<Ip2, Mask16>>>>)
    /\ call.r.cidrs = <<toCidr(Ip1, Mask24)>>

-----------------------------------------------------------------------------
(* Zone builtins *)

ZoneOfBuiltin ==
    [b \in {"Any-Trusted", "Any-Optional", "Any-External"} |->
        IF b = "Any-Trusted" THEN "Trusted"
        ELSE IF b = "Any-Optional" THEN "Optional" ELSE "External"]

(* The CIDR lists of the interfaces of zone z, one after the other in     *)
(* interface order.                                                        *)
RECURSIVE ZoneConcat(_, _)
ZoneConcat(ifaces, z) ==
    IF ifaces = <<>> THEN <<>>
    ELSE (IF Head(ifaces).zone = z THEN Head(ifaces).cidrs ELSE <<>>)
             \o ZoneConcat(Tail(ifaces), z)

(* C23: the bucket of each zone is the concatenation of the CIDR lists of *)
(* the interfaces of that zone, in interface order and with duplicates;   *)
(* resolveAlias of a zone builtin returns exactly the CIDRs of that       *)
(* bucket, so nothing for a zone without interfaces.                       *)
C23_ZoneBuiltinIsZoneBucket ==
    \A b \in DOMAIN ZoneOfBuiltin :
        /\ MapGet(domain.zoneCidrs, ZoneOfBuiltin[b], <<>>)
               = ZoneConcat(interfacesByName, ZoneOfBuiltin[b])
        /\ (IsResolved /\ call.name = b) =>
               /\ Range(call.r.cidrs)
                      = CidrsOfInterfaces(InterfacesOfZone(ZoneOfBuiltin[b]))
               /\ call.r.hosts = <<>>
               /\ call.r.notes = <<>>

(* Two Trusted interfaces that share a CIDR, eth1 before eth0: the bucket *)
(* holds it twice, the result once.                                        *)
C23_Witness ==
    /\ IsResolved /\ call.name = "Any-Trusted"
    /\ Len(interfacesByName) = 2
    /\ interfacesByName[1] = parseInterface("eth1", "Trusted", <<<<Ip1, Mask24>>>>)
    /\ interfacesByName[2] =
           parseInterface("eth0", "Trusted", <<<<Ip2, Mask16>>, <<Ip1, Mask24>>>>)
    /\ domain.zoneCidrs["Trusted"]
           = <<toCidr(Ip1, Mask24), toCidr(Ip2, Mask16), toCidr(Ip1, Mask24)>>
    /\ call.r.cidrs = <<toCidr(Ip1, Mask24), toCidr(Ip2, Mask16)>>

-----------------------------------------------------------------------------
(* Notes of unresolved references *)

(* The references met while resolving `members`: an alias-ref to a known  *)
(* alias stands for the members of that alias.                             *)
RECURSIVE ReferencesOf(_)
ReferencesOf(members) ==
    IF members = <<>> THEN <<>>
    ELSE LET m == Head(members)
         IN  (IF m.kind = "alias-ref" /\ m.aliasName \in DOMAIN aliasesByName
              THEN aliasesByName[m.aliasName]
              ELSE <<m>>) \o ReferencesOf(Tail(members))

IsUnresolved(m) ==
    \/ m.kind = "alias-ref" /\ m.aliasName \notin DOMAIN addrGroupsByName
    \/ m.kind = "address-ref" /\ m.addressName \notin DOMAIN addrGroupsByName

(* One note per unresolved reference, in order. *)
RECURSIVE UnresolvedNotes(_)
UnresolvedNotes(refs) ==
    IF refs = <<>> THEN <<>>
    ELSE (IF ~IsUnresolved(Head(refs)) THEN <<>>
          ELSE IF Head(refs).kind = "alias-ref"
          THEN <<<<"Alias not found:", Head(refs).aliasName>>>>
          ELSE <<<<"Address-group not found:", Head(refs).addressName>>>>)
             \o UnresolvedNotes(Tail(refs))

ResolvableGroups(refs) ==
    {refs[i].addressName :
        i \in {j \in DOMAIN refs : refs[j].kind = "address-ref" /\ ~IsUnresolved(refs[j])}}

NoRepeats(seq) == \A i, j \in DOMAIN seq : seq[i] = seq[j] => i = j

RECURSIVE Bracketed(_, _)
Bracketed(n, notes) ==
    IF notes = <<>> THEN <<>>
    ELSE <<<<"[", n, "]">> \o Head(notes)>> \o Bracketed(n, Tail(notes))

(* C24: an alias whose members (its own and those of the alias it refers  *)
(* to) hold unresolved references, none of them twice, resolves to one    *)
(* note per unresolved reference, in member order and pairwise distinct,  *)
(* together with the CIDRs and hosts of every resolvable member; the      *)
(* policy that names the alias as its source carries each of these notes  *)
(* prefixed with "[A]", the name of the endpoint it comes from.            *)
C24_NotesAccumulate ==
    (aliasesByName \in NoteTables /\ NoRepeats(aliasesByName["A"])) =>
        LET refs == ReferencesOf(aliasesByName["A"])
            expected == UnresolvedNotes(refs)
            cidrs == UNION {Range(expandAddressGroup(g).cidrs) : g \in ResolvableGroups(refs)}
            hosts == UNION {Range(expandAddressGroup(g).hosts) : g \in ResolvableGroups(refs)}
        IN  /\ NoRepeats(expected)
            /\ (IsResolved /\ call.name = "A") =>
                   /\ call.r.notes = expected
                   /\ Range(call.r.cidrs) = cidrs
                   /\ Range(call.r.hosts) = hosts
            /\ IsMaterialized =>
                   /\ call.unified[1].debug
                          = Bracketed("A", expected)
                                \o <<<<"[", "Firebox", "]">> \o FireboxNote>>
                   /\ Range(call.unified[1].srcCidrs) = cidrs
                   /\ Range(call.unified[1].srcHosts) = hosts

(* Three unresolved references, one of them inside alias B, between two   *)
(* resolvable address-groups.                                              *)
C24_Witness ==
    /\ aliasesByName \in NoteTables
    /\ aliasesByName["A"] = <<Ref("X"), Addr("G"), Ref("B"), Addr("Missing")>>
    /\ IsMaterialized
    /\ call.unified[1].debug =
           << <<"[", "A", "]", "Alias not found:", "X">>,
              <<"[", "A", "]", "Alias not found:", "Z">>,
              <<"[", "A", "]", "Address-group not found:", "Missing">>,
              <<"[", "Firebox", "]", "Firebox (device) has no address space">> >>
    /\ Len(call.unified[1].srcCidrs) = 3
    /\ Len(call.unified[1].srcHosts) = 2

-----------------------------------------------------------------------------
(* Cycle notes and the shared visited set *)

(* The names met from `name`: itself and every name one or more alias-ref *)
(* steps away.                                                             *)
Reached(name, expandedOnly) == {name} \cup ReachPlus(name, expandedOnly)

(* C26: when no name reachable from the requested name through alias-ref  *)
(* members lies on a reference cycle, the result of resolveAlias holds no *)
(* "Cycle detected" note.                                                  *)
C26_CycleNoteOnlyOnCycle ==
    (IsResolved /\ \A b \in Reached(call.name, FALSE) : ~OnCycle(b))
        => ~HasCycleNote(call.r)

(* What one member that is no alias-ref contributes. *)
CidrsOfMember(m) ==
    IF m.kind = "address-ref" THEN Range(expandAddressGroup(m.addressName).cidrs)
    ELSE IF m.kind = "interface-any" THEN Range(interfaceAnyToCidrs(m.interface, m.zone))
    ELSE IF m.kind = "builtin" THEN Range(builtinToCidrs(m.name))
    ELSE {}

HostsOfMember(m) ==
    IF m.kind = "address-ref" THEN Range(expandAddressGroup(m.addressName).hosts)
    ELSE {}

(* What one reached name contributes by itself: the members of the alias  *)
(* of that name, or, for a name without alias, the builtin or the         *)
(* address-group of that name.  With `builtinFirst` a name the resolver   *)
(* takes for a builtin is that builtin whether or not an alias has that   *)
(* name.                                                                   *)
CidrsOfName(n, builtinFirst) ==
    IF builtinFirst /\ isBuiltin(n) THEN Range(builtinToCidrs(n))
    ELSE IF n \in DOMAIN aliasesByName
    THEN UNION {CidrsOfMember(m) : m \in Range(aliasesByName[n])}
    ELSE IF isBuiltin(n) THEN Range(builtinToCidrs(n))
    ELSE Range(expandAddressGroup(n).cidrs)

HostsOfName(n, builtinFirst) ==
    IF builtinFirst /\ isBuiltin(n) THEN {}
    ELSE IF n \in DOMAIN aliasesByName
    THEN UNION {HostsOfMember(m) : m \in Range(aliasesByName[n])}
    ELSE IF isBuiltin(n) THEN {}
    ELSE Range(expandAddressGroup(n).hosts)

(* C27, as stated: the CIDRs and hosts of resolveAlias(name) are the      *)
(* union of what the members of every alias reachable from the name       *)
(* through alias-ref members contribute.                                   *)
C27_UnionOverReachableAliases ==
    IsResolved =>
        /\ Range(call.r.cidrs)
               = UNION {CidrsOfName(n, FALSE) : n \in Reached(call.name, FALSE)}
        /\ Range(call.r.hosts)
               = UNION {HostsOfName(n, FALSE) : n \in Reached(call.name, FALSE)}

(* C27, amended: the CIDRs and hosts of resolveAlias(name) are the union  *)
(* of what every name reachable through the alias-ref members of expanded *)
(* aliases contributes, where a name the resolver takes for a builtin     *)
(* contributes that builtin's CIDRs and is not expanded.                   *)
C27_UnionOverExpandedAliases ==
    IsResolved =>
        /\ Range(call.r.cidrs)
               = UNION {CidrsOfName(n, TRUE) : n \in Reached(call.name, TRUE)}
        /\ Range(call.r.hosts)
               = UNION {HostsOfName(n, TRUE) : n \in Reached(call.name, TRUE)}

(* The diamond with D referring back to A: D is reached along two paths   *)
(* and lies on a cycle, and its address-group G is in the result.          *)
C27_Witness ==
    /\ IsResolved /\ call.name = "A"
    /\ aliasesByName \in DiamondTables
    /\ aliasesByName["D"] = <<Ref("A"), Addr("G")>>
    /\ Range(call.r.cidrs) = Range(expandAddressGroup("G").cidrs)
                                 \cup Range(expandAddressGroup("H").cidrs)
    /\ Range(call.r.hosts) = {Ip1, Ip4}

-----------------------------------------------------------------------------
(* The database operations, one call each (db.ts).  The callers hand in   *)
(* the id of a stored map and ids of rows of that map, as the LAN panel   *)
(* of the open map does.                                                   *)

MaxDevices == 2   \* rows of map_devices per map

MapIds == {"m1", "m2"}
SwitchIds == {"s1"}
PortIds == {"p1"}
VlanIds == {"v1"}
HostIds == {"h1"}
LocationIds == {"l1", "l2"}
DbCidrs == {Net1}

StoredMaps(d) == {row.id : row \in d.maps}

(* The map ids some row of some table refers to. *)
MapIdsInUse(d) ==
    StoredMaps(d) \cup {row.id : row \in d.map_xml}
        \cup {d.map_devices[i].mapId : i \in DOMAIN d.map_devices}
        \cup {row.mapId : row \in d.annotations2 \cup d.lan_switches \cup d.lan_vlans
                                  \cup d.lan_hosts \cup d.lan_notes \cup d.lan_locations}

(* uuid(): an id no row holds. *)
FreshMapIds(d) == MapIds \ MapIdsInUse(d)
FreshDevId(d) == Len(d.map_devices) + 1
FreshIds(pool, rows) == pool \ {row.id : row \in rows}

MapOfSwitch(d, switchId) ==
    {row.mapId : row \in {x \in d.lan_switches : x.id = switchId}}

MapOfPort(d, portId) ==
    UNION {MapOfSwitch(d, row.switchId) : row \in {x \in d.lan_ports : x.id = portId}}

DbCall(d) ==
    /\ db' = d
    /\ UNCHANGED <<config, snap, inflight, session, loads, other, ov, merge, call,
                   pc, stack, seen, expanded, first>>

(* What the user stores under a new map: its name and its XML file. *)
MapInputs(id) ==
    IF id = "m1" THEN [name |-> "Site A", xmlName |-> "a.xml", xmlText |-> "xmlA"]
    ELSE [name |-> "Site B", xmlName |-> "b.xml", xmlText |-> "xmlB"]

CreateMap ==
    \E id \in FreshMapIds(db) :
        DbCall(createMap(db, id, FreshDevId(db), MapInputs(id).name,
                         MapInputs(id).xmlName, MapInputs(id).xmlText))

AddMapDevice ==
    \E mapId \in StoredMaps(db) :
        /\ Len(listMapDevices(db, mapId)) < MaxDevices
        /\ DbCall(addMapDevice(db, mapId, FreshDevId(db), "fw2.xml", "xmlB"))

SetAnnotationFor ==
    \E mapId \in StoredMaps(db), cidr \in DbCidrs :
        DbCall(setAnnotationFor(db, mapId, cidr, "note", Null))

UpsertLanSwitch ==
    \E mapId \in StoredMaps(db), id \in FreshIds(SwitchIds, db.lan_switches) :
        DbCall(upsertLanSwitch(db, id, mapId))

UpsertLanPort ==
    \E sw \in db.lan_switches, id \in FreshIds(PortIds, db.lan_ports) :
        DbCall(upsertLanPort(db, id, sw.id))

UpsertLanVlan ==
    \E mapId \in StoredMaps(db), id \in FreshIds(VlanIds, db.lan_vlans) :
        DbCall(upsertLanVlan(db, id, mapId))

SetPortVlanBinding ==
    \E port \in db.lan_ports, vlan \in db.lan_vlans :
        /\ vlan.mapId \in MapOfPort(db, port.id)
        /\ DbCall(setPortVlanBinding(db, port.id, vlan.id))

UpsertLanHost ==
    \E mapId \in StoredMaps(db), id \in FreshIds(HostIds, db.lan_hosts) :
        DbCall(upsertLanHost(db, id, mapId))

BindHostToPort ==
    \E host \in db.lan_hosts, port \in db.lan_ports :
        /\ host.mapId \in MapOfPort(db, port.id)
        /\ DbCall(bindHostToPort(db, host.id, port.id))

SetLanNote ==
    \E mapId \in StoredMaps(db) : DbCall(setLanNote(db, mapId, "lan", Null))

UpsertLanLocation ==
    \E mapId \in StoredMaps(db), id \in FreshIds(LocationIds, db.lan_locations) :
        DbCall(upsertLanLocation(db, mapId, "HQ", id))

DeleteMap(id) == DbCall(deleteMap(db, id))

NextDb ==
    \/ CreateMap
    \/ AddMapDevice
    \/ SetAnnotationFor
    \/ UpsertLanSwitch
    \/ UpsertLanPort
    \/ UpsertLanVlan
    \/ SetPortVlanBinding
    \/ UpsertLanHost
    \/ BindHostToPort
    \/ SetLanNote
    \/ UpsertLanLocation
    \/ \E id \in StoredMaps(db) : DeleteMap(id)

InitDb == Load(NoXmlUniverse)

SpecDb == InitDb /\ [][NextDb]_vars

(* The rows that belong to map id: those that name it, the ports of its   *)
(* switches, and the bindings of its ports and hosts.                      *)
RowsOfMap(d, id) ==
    LET ports == {row \in d.lan_ports : id \in MapOfSwitch(d, row.switchId)}
    IN  [maps |-> {row \in d.maps : row.id = id},
         map_xml |-> {row \in d.map_xml : row.id = id},
         map_devices |-> {i \in DOMAIN d.map_devices : d.map_devices[i].mapId = id},
         annotations2 |-> {row \in d.annotations2 : row.mapId = id},
         lan_switches |-> {row \in d.lan_switches : row.mapId = id},
         lan_ports |-> ports,
         lan_port_vlans |-> {row \in d.lan_port_vlans :
                                row.portId \in {p.id : p \in ports}},
         lan_vlans |-> {row \in d.lan_vlans : row.mapId = id},
         lan_hosts |-> {row \in d.lan_hosts : row.mapId = id},
         lan_bindings |-> {row \in d.lan_bindings :
                              row.portId \in {p.id : p \in ports}},
         lan_notes |-> {row \in d.lan_notes : row.mapId = id},
         lan_locations |-> {row \in d.lan_locations : row.mapId = id}]

(* C25: a deleteMap(id) step leaves no table with a row that belonged to  *)
(* map id before the step: the row is gone, and no row names id.          *)
C25_DeleteMapLeavesNoRow ==
    [][\A id \in MapIds :
          DeleteMap(id) =>
              /\ \A t \in DOMAIN RowsOfMap(db, id) \ {"map_devices"} :
                     RowsOfMap(db, id)[t] \cap db'[t] = {}
              /\ \A t \in DOMAIN RowsOfMap(db', id) : RowsOfMap(db', id)[t] = {}]_vars

(* The tables other than lan_locations are purged by every deleteMap. *)
C25_DeleteMapPurgesOtherTables ==
    [][\A id \in MapIds :
          DeleteMap(id) =>
              \A t \in DOMAIN RowsOfMap(db', id) \ {"lan_locations"} :
                  RowsOfMap(db', id)[t] = {}]_vars

-----------------------------------------------------------------------------
(* The XML+XLS App (App.tsx): onPickXml and onPickXls, each in two steps, *)
(* up to its await of the parse and from there to its end.  A picked file *)
(* is what its parse yields, or BadFile when the parse throws.             *)

MaxPicks == 3   \* files picked in one behaviour

BadFile == [ok |-> FALSE]

SnapXmlLists ==
    {<<>>,
     <<Unified("1", "X", Undefined, <<Net1>>, <<>>, "XML")>>,
     <<Unified("1", "X", Undefined, <<Net1>>, <<>>, "XML"),
       Unified("2", "X", Undefined, <<Net1, Net2>>, <<>>, "XML")>>,
     <<Unified("3", "X", "HTTP", <<Net1>>, <<Net2>>, "XML"),
       Unified("1", "X", Undefined, <<Net1>>, <<>>, "XML")>>}

SnapXlsLists ==
    {<<>>,
     <<Unified("xls_1", "X", Undefined, <<Net1>>, <<>>, "XLS")>>,
     <<Unified("xls_1", "X", Undefined, <<Net2, Net1>>, <<>>, "XLS"),
       Unified("xls_2", "Z", "DNS", <<>>, <<Net2>>, "XLS")>>,
     <<Unified("xls_1", "Z", "DNS", <<>>, <<Net2>>, "XLS"),
       Unified("xls_2", "X", Undefined, <<Net1>>, <<>>, "XLS")>>}

XmlFiles ==
    {BadFile} \cup {[ok |-> TRUE, domain |-> toDomain(DefaultInterfaces),
                      xmlPolicies |-> l] : l \in SnapXmlLists}

XlsFiles == {BadFile} \cup {[ok |-> TRUE, xlsPolicies |-> l] : l \in SnapXlsLists}

(* x ?? [] *)
OrEmptyList(x) == IF x = Undefined THEN <<>> ELSE x

SnapStep ==
    UNCHANGED <<config, db, session, loads, other, ov, merge, call, pc, stack,
                seen, expanded, first>>

(* A handler up to `await parse...(file)`: setError(null). *)
Pick(kind, file) ==
    /\ inflight.started < MaxPicks
    /\ inflight' = [inflight EXCEPT
                      !.started = @ + 1,
                      !.error = Null,
                      !.pending = @ \cup {[n |-> inflight.started + 1,
                                           kind |-> kind, file |-> file]}]
    /\ UNCHANGED snap
    /\ SnapStep

PickXml(file) == Pick("xml", file)

PickXls(file) == Pick("xls", file)

Finished(load, error) ==
    inflight' = [inflight EXCEPT !.pending = @ \ {load},
                                 !.done = Append(@, load.n),
                                 !.error = error]

(* Mutant: the XML policies are merged with no spreadsheet policies. *)
XmlLoaded_forgetsXls(load) ==
    /\ load \in inflight.pending /\ load.kind = "xml" /\ load.file.ok
    /\ snap' = [snap EXCEPT
                  !.domain = load.file.domain,
                  !.xmlPolicies = load.file.xmlPolicies,
                  !.policies = mergePolicies(load.file.xmlPolicies, <<>>)]
    /\ Finished(load, inflight.error)
    /\ SnapStep

(* onPickXml after the parse: setSnap(prev => ...) on the state as it is  *)
(* when the update runs.                                                   *)
XmlLoaded(load) ==
    /\ load \in inflight.pending /\ load.kind = "xml" /\ load.file.ok
    /\ snap' = [snap EXCEPT
                  !.domain = load.file.domain,
                  !.xmlPolicies = load.file.xmlPolicies,
                  !.policies = mergePolicies(load.file.xmlPolicies,
                                             OrEmptyList(snap.xlsPolicies))]
    /\ Finished(load, inflight.error)
    /\ SnapStep

(* onPickXls after the parse *)
XlsLoaded(load) ==
    /\ load \in inflight.pending /\ load.kind = "xls" /\ load.file.ok
    /\ snap' = [snap EXCEPT
                  !.xlsPolicies = load.file.xlsPolicies,
                  !.policies = mergePolicies(OrEmptyList(snap.xmlPolicies),
                                             load.file.xlsPolicies)]
    /\ Finished(load, inflight.error)
    /\ SnapStep

(* The parse throws: the catch block sets the error and nothing else. *)
LoadFailed(load) ==
    /\ load \in inflight.pending /\ ~load.file.ok
    /\ Finished(load, IF load.kind = "xml" THEN "XML load failed" ELSE "XLS load failed")
    /\ UNCHANGED snap
    /\ SnapStep

NextSnap ==
    \/ \E file \in XmlFiles : PickXml(file)
    \/ \E file \in XlsFiles : PickXls(file)
    \/ \E load \in inflight.pending : XmlLoaded(load)
    \/ \E load \in inflight.pending : XlsLoaded(load)
    \/ \E load \in inflight.pending : LoadFailed(load)

InitSnap == Load(NoXmlUniverse)

SpecSnap == InitSnap /\ [][NextSnap]_vars

(* C28: whatever loads have completed or failed, in whatever order, and   *)
(* whatever loads are still awaiting their parse, snap.policies has the   *)
(* key sequence of mergePolicies(snap.xmlPolicies ?? [], snap.xlsPolicies *)
(* ?? []); before the first completed load there is no list at all.       *)
C28_SnapshotIsMergeOfStored ==
    IF snap.policies = Undefined
    THEN snap.xmlPolicies = Undefined /\ snap.xlsPolicies = Undefined
    ELSE KeysOf(snap.policies)
             = KeysOf(mergePolicies(OrEmptyList(snap.xmlPolicies),
                                    OrEmptyList(snap.xlsPolicies)))

(* The second file picked was loaded before the first, a third failed;    *)
(* both lists are stored and share a key.                                  *)
C28_Witness ==
    /\ inflight.done = <<2, 3, 1>>
    /\ inflight.error # Null
    /\ snap.xmlPolicies # Undefined /\ snap.xlsPolicies # Undefined
    /\ Len(snap.xmlPolicies) = 2 /\ Len(snap.xlsPolicies) = 2
    /\ Len(snap.policies) = 3

-----------------------------------------------------------------------------
(* The map App: loadMapById in steps, one per await, beside the database  *)
(* operations that store maps and onSaveAsMap.  An XML text is a name;    *)
(* parseWatchGuardXmlText yields the interfaces and policies written in   *)
(* it.  The operations that store data run while no loadMapById call is   *)
(* between two of its awaits.                                              *)

XmlTexts == {"xmlA", "xmlB"}

parseWatchGuardXmlText(xmlText) ==
    IF xmlText = "xmlA"
    THEN [interfacesByName |-> DefaultInterfaces,
          xmlPolicies |-> <<Unified("1", "X", Undefined, <<Net1>>, <<>>, "XML")>>]
    ELSE [interfacesByName |-> <<parseInterface("eth0", "Trusted", <<<<Ip2, Mask16>>>>)>>,
          xmlPolicies |-> <<Unified("3", "X", "HTTP", <<Net1>>, <<Net2>>, "XML")>>]

(* `Device ${n}` *)
DeviceName(n) ==
    CASE n = 1 -> "Device 1" [] n = 2 -> "Device 2" [] n = 3 -> "Device 3"
      [] n = 4 -> "Device 4" [] OTHER -> "Device n"

(* x || y *)
OrElse(x, y) == IF OrNull(x) # Null THEN x ELSE y

(* One pass of the loop of loadMapById: the entry of `all` at index i     *)
(* (from 1), parsed.                                                       *)
FirewallEntry(all, i, data) ==
    [id |-> <<"fw-", i>>,
     name |-> OrElse(all[i].name,
                     IF i = 1 THEN OrElse(data.xmlName, data.name) ELSE DeviceName(i)),
     domain |-> toDomain(parseWatchGuardXmlText(all[i].xmlText).interfacesByName),
     xmlText |-> all[i].xmlText]

(* setSnap(prev => ({ ...prev, domain, xmlPolicies, policies: merged })) *)
SnapOf(prev, xmlText) ==
    LET raw == parseWatchGuardXmlText(xmlText)
    IN  [prev EXCEPT !.domain = toDomain(raw.interfacesByName),
                     !.xmlPolicies = raw.xmlPolicies,
                     !.policies = mergePolicies(raw.xmlPolicies, <<>>)]

InFlight(p) == loads[p].pc \notin {"idle", "done"}
NoLoadInFlight == \A p \in LoadIds : ~InFlight(p)

LoadStep ==
    UNCHANGED <<config, db, snap, inflight, other, ov, merge, call, pc, stack,
                seen, expanded, first>>

(* loadMapById(id) up to its first await: getMapXmlText has read. *)
StartLoad(p, id) ==
    /\ loads[p].pc = "idle"
    /\ loads' = [loads EXCEPT ![p] =
           [pc |-> "data", id |-> id, data |-> getMapXmlText(db, id), all |-> <<>>,
            fwArr |-> <<>>, amap |-> {}, offs |-> {}, enotes |-> {}]]
    /\ UNCHANGED session
    /\ LoadStep

(* if (!data) return; setLastXmlText; await parseWatchGuardXmlText *)
GotData(p) ==
    /\ loads[p].pc = "data"
    /\ IF ~loads[p].data.found
       THEN /\ loads' = [loads EXCEPT ![p].pc = "done"]
            /\ UNCHANGED session
       ELSE /\ loads' = [loads EXCEPT ![p].pc = "parse"]
            /\ session' = [session EXCEPT !.lastXmlText = loads[p].data.xmlText]
    /\ LoadStep

(* setSnap; await getMapAllXmlTexts(id) *)
Parsed(p) ==
    /\ loads[p].pc = "parse"
    /\ session' = [session EXCEPT !.snap = SnapOf(@, loads[p].data.xmlText)]
    /\ loads' = [loads EXCEPT ![p].pc = "all",
                              ![p].all = getMapAllXmlTexts(db, loads[p].id)]
    /\ LoadStep

(* After the loop: setFirewalls(fwArr); await getAnnotationMapFor(id) *)
SetFirewalls(p, fwArr) ==
    /\ session' = [session EXCEPT !.firewalls = fwArr]
    /\ loads' = [loads EXCEPT ![p].pc = "amap", ![p].fwArr = fwArr,
                              ![p].amap = getAnnotationMapFor(db, loads[p].id)]

(* The loop is entered: await the parse of the first entry, if any. *)
GotAll(p) ==
    /\ loads[p].pc = "all"
    /\ IF loads[p].all = <<>>
       THEN SetFirewalls(p, <<>>)
       ELSE /\ loads' = [loads EXCEPT ![p].pc = "entry"]
            /\ UNCHANGED session
    /\ LoadStep

(* An entry is parsed and pushed; await the parse of the next one. *)
EntryParsed(p) ==
    /\ loads[p].pc = "entry"
    /\ LET i == Len(loads[p].fwArr) + 1
           fwArr == Append(loads[p].fwArr,
                           FirewallEntry(loads[p].all, i, loads[p].data))
       IN  IF i < Len(loads[p].all)
           THEN /\ loads' = [loads EXCEPT ![p].fwArr = fwArr]
                /\ UNCHANGED session
           ELSE SetFirewalls(p, fwArr)
    /\ LoadStep

(* setAnnotations(amap); await getAnnotationOffsetsFor(id) *)
GotAnnotations(p) ==
    /\ loads[p].pc = "amap"
    /\ session' = [session EXCEPT !.annotations = loads[p].amap]
    /\ loads' = [loads EXCEPT ![p].pc = "offs",
                              ![p].offs = getAnnotationOffsetsFor(db, loads[p].id)]
    /\ LoadStep

(* setLabelOffsets(offs); await getEdgeNotesFor(id) *)
GotOffsets(p) ==
    /\ loads[p].pc = "offs"
    /\ session' = [session EXCEPT !.labelOffsets = loads[p].offs]
    /\ loads' = [loads EXCEPT ![p].pc = "enotes",
                              ![p].enotes = getEdgeNotesFor(db, loads[p].id)]
    /\ LoadStep

(* setEdgeNotes(enotes); setMapId(id); setMapName(data.name); LAST_MAP_KEY *)
GotEdgeNotes(p) ==
    /\ loads[p].pc = "enotes"
    /\ session' = [session EXCEPT !.edgeNotes = loads[p].enotes,
                                  !.mapId = loads[p].id,
                                  !.mapName = loads[p].data.name,
                                  !.lastMapKey = loads[p].id]
    /\ loads' = [loads EXCEPT ![p].pc = "done"]
    /\ LoadStep

(* A database operation of NextDb, between loads. *)
Store(d) ==
    /\ NoLoadInFlight
    /\ db' = d
    /\ UNCHANGED <<config, snap, inflight, session, loads, other, ov, merge, call,
                   pc, stack, seen, expanded, first>>

StoreMap ==
    \E id \in FreshMapIds(db) :
        Store(createMap(db, id, FreshDevId(db), MapInputs(id).name,
                        MapInputs(id).xmlName, MapInputs(id).xmlText))

StoreDevice ==
    \E mapId \in StoredMaps(db), xmlText \in XmlTexts :
        /\ Len(listMapDevices(db, mapId)) < MaxDevices
        /\ Store(addMapDevice(db, mapId, FreshDevId(db), "fw2.xml", xmlText))

StoreAnnotation ==
    \E mapId \in StoredMaps(db), cidr \in DbCidrs :
        /\ AnnotationRows(db, mapId) = {}
        /\ Store(setEdgeNoteFor(setAnnotationFor(db, mapId, cidr, MapInputs(mapId).name, "0.25"),
                                mapId, cidr, "uplink"))

RECURSIVE AddDevices(_, _, _)
AddDevices(d, newId, fws) ==
    IF fws = <<>> THEN d
    ELSE AddDevices(IF OrNull(Head(fws).xmlText) # Null
                    THEN addMapDevice(d, newId, FreshDevId(d), Head(fws).name,
                                      Head(fws).xmlText)
                    ELSE d,
                    newId, Tail(fws))

(* for (const [cidr, v] of entries) await set...For(newId, cidr, v) *)
RECURSIVE CopyEntries(_, _, _, _)
CopyEntries(d, newId, entries, column) ==
    IF entries = {} THEN d
    ELSE LET e == CHOOSE x \in entries : TRUE
             next == IF column = "note"
                     THEN setAnnotationFor(d, newId, e[1], e[2], Null)
                     ELSE IF column = "offset"
                     THEN setAnnotationOffsetFor(d, newId, e[1], e[2])
                     ELSE setEdgeNoteFor(d, newId, e[1], e[2])
         IN  CopyEntries(next, newId, entries \ {e}, column)

(* onSaveAsMap with the name nm answered at the prompt *)
OnSaveAsMap(nm) ==
    /\ NoLoadInFlight
    /\ session.lastXmlText # Null
    /\ \E newId \in FreshMapIds(db) :
         LET d1 == createMap(db, newId, FreshDevId(db), nm, session.lastXmlName,
                             session.lastXmlText)
             d2 == IF session.firewalls # <<>>
                   THEN renameFirstDeviceForMap(d1, newId, session.firewalls[1].name)
                   ELSE d1
             d3 == AddDevices(d2, newId,
                              IF session.firewalls = <<>> THEN <<>>
                              ELSE Tail(session.firewalls))
             d4 == CopyEntries(d3, newId, session.annotations, "note")
             d5 == CopyEntries(d4, newId, session.labelOffsets, "offset")
             d6 == CopyEntries(d5, newId, session.edgeNotes, "edgeNote")
         IN  /\ db' = d6
             /\ session' = [session EXCEPT !.mapId = newId, !.mapName = nm,
                                           !.lastMapKey = newId]
    /\ UNCHANGED <<config, snap, inflight, loads, other, ov, merge, call, pc,
                   stack, seen, expanded, first>>

NextSession ==
    \/ StoreMap
    \/ StoreDevice
    \/ StoreAnnotation
    \/ OnSaveAsMap("Copy")
    \/ \E p \in LoadIds, id \in MapIds : StartLoad(p, id)
    \/ \E p \in LoadIds : GotData(p)
    \/ \E p \in LoadIds : Parsed(p)
    \/ \E p \in LoadIds : GotAll(p)
    \/ \E p \in LoadIds : EntryParsed(p)
    \/ \E p \in LoadIds : GotAnnotations(p)
    \/ \E p \in LoadIds : GotOffsets(p)
    \/ \E p \in LoadIds : GotEdgeNotes(p)

InitSession == Load(NoXmlUniverse)

SpecSession == InitSession /\ [][NextSession]_vars

(* The session state holds what the call p of loadMapById has set. *)
SessionIsOf(p) ==
    /\ session.mapId = loads[p].id
    /\ session.mapName = loads[p].data.name
    /\ session.lastXmlText = loads[p].data.xmlText
    /\ session.snap = SnapOf(NoSnap, loads[p].data.xmlText)
    /\ session.firewalls = loads[p].fwArr
    /\ session.annotations = loads[p].amap
    /\ session.labelOffsets = loads[p].offs
    /\ session.edgeNotes = loads[p].enotes

(* C29: once two loadMapById calls for two stored maps have both          *)
(* finished, the policy snapshot, the firewalls, the annotations, label   *)
(* offsets and edge notes and mapId / mapName are those of one of the two *)
(* maps.                                                                   *)
C29_SessionOfOneMap ==
    (/\ \A p \in LoadIds : loads[p].pc = "done" /\ loads[p].data.found
     /\ loads[1].id # loads[2].id)
        => \E p \in LoadIds : SessionIsOf(p)

(* C30: a finished pass of loadMapById over a stored map has built one    *)
(* firewall entry per row of map_devices (createMap stores one, every     *)
(* addMapDevice one more), no XML text more often than stored.             *)
C30_OneFirewallPerDevice ==
    \A p \in LoadIds :
        (loads[p].pc \in {"amap", "offs", "enotes"})
            => Len(loads[p].fwArr) = Len(listMapDevices(db, loads[p].id))

(* loadMapById builds one entry for map_xml and one per row of            *)
(* map_devices.                                                            *)
C30_OneFirewallPerStoredXml ==
    \A p \in LoadIds :
        (loads[p].pc \in {"amap", "offs", "enotes"})
            => Len(loads[p].fwArr) = 1 + Len(listMapDevices(db, loads[p].id))

=============================================================================
